---------------------------- MODULE Spec2Model ----------------------------
(***************************************************************************)
(* Model of the single-table catalog of tv-event-streaming: the preference *)
(* reconcilers (user_preferences/preferences.py, web_api/web_api.py), the  *)
(* title consumer (title_recommendations_consumer/consumer.py) and the     *)
(* recommendation resolver (web_api/web_api.py).                           *)
(*                                                                         *)
(* A Python str is a sequence of tokens: ":" is a token of its own, every  *)
(* other token is a colon-free piece of text.  An f-string is \o, and      *)
(* str.split / str.startswith work on the tokens.  A Python value that is  *)
(* interpolated into a key is tagged with its type (StrV, IntV) and Fmt    *)
(* renders it the way an f-string does.                                    *)
(*                                                                         *)
(* Unless a specification says otherwise the table answers every request  *)
(* completely and without error: a query returns its whole partition in    *)
(* one page, a batch-get leaves no key unprocessed, a batch write is       *)
(* applied whole.                                                          *)
(***************************************************************************)
EXTENDS Integers, Sequences, FiniteSets, TLC

VARIABLES
    store,      \* the DynamoDB table: a set of items, at most one per (PK, SK)
    lastCall,   \* the handler invocation that ran last: its arguments, the
                \* requests it sent to the table, its outcome, the table before
    inFlight,   \* the invocations that run one table request at a time, by
                \* Lambda instance: what each has read and has yet to write
    pool        \* the Cognito user pool: its users and those of them in the
                \* group SecurityAdmins

vars == <<store, lastCall, inFlight, pool>>

---------------------------------------------------------------------------
(* Bounds of the model *)

\* longest sources / genres list of a PUT /preferences body
MaxPrefLen == 2
\* most reads of one resolver call that the table is made to fail
MaxReads == 4
\* most rows of one page of a Query response
MaxPage == 2
\* most records of one Kinesis event handed to the consumer
MaxBatch == 2

---------------------------------------------------------------------------
(* Python values and strings *)

StrV(s) == [ty |-> "str", v |-> s]
IntV(n) == [ty |-> "int", v |-> n]

\* str(n) for the integers the model uses
Digits == <<"1", "2", "3", "4", "5", "6", "7", "8", "9">>

\* f"{x}": a str is itself, an int is its decimal digits
Fmt(x) == IF x.ty = "str" THEN x.v ELSE <<Digits[x.v]>>

USER_PREF_PREFIX == <<"userpref", ":">>
SOURCE_PREFIX == <<"source", ":">>
GENRE_PREFIX == <<"genre", ":">>
TITLE_PREFIX == <<"title", ":">>

\* s.startswith(p)
StartsWith(s, p) == Len(s) >= Len(p) /\ SubSeq(s, 1, Len(p)) = p

HasColon(s) == \E i \in 1..Len(s) : s[i] = ":"

FirstColon(s) == CHOOSE i \in 1..Len(s) : s[i] = ":" /\ \A j \in 1..(i - 1) : s[j] # ":"

\* s.split(':', 1): one part when s has no colon, else the text before the
\* first colon and everything after it
Split1(s) ==
    IF HasColon(s)
    THEN <<SubSeq(s, 1, FirstColon(s) - 1), SubSeq(s, FirstColon(s) + 1, Len(s))>>
    ELSE <<s>>

\* dict.get(k, default)
Get(d, k, default) == IF k \in DOMAIN d THEN d[k] ELSE default

Range(f) == {f[i] : i \in DOMAIN f}

\* the lists of at most n elements of S
ListsUpTo(S, n) == UNION {[1..k -> S] : k \in 0..n}

RECURSIVE SeqOf(_)
\* the elements of a finite set in one fixed order
SeqOf(S) == IF S = {} THEN <<>> ELSE LET x == CHOOSE y \in S : TRUE IN <<x>> \o SeqOf(S \ {x})

---------------------------------------------------------------------------
(* The table *)

KeyOf(item) == <<item.PK, item.SK>>

\* table.query(KeyConditionExpression = PK = :pk)
Query(tbl, pk) == {item \in tbl : item.PK = pk}

\* PutItem: the item replaces the one stored under its key
PutItem(tbl, item) == {i \in tbl : KeyOf(i) # KeyOf(item)} \cup {item}

\* DeleteItem
DeleteItem(tbl, key) == {i \in tbl : KeyOf(i) # key}

PutReq(item) == [op |-> "put", item |-> item]
DeleteReq(pk, sk) == [op |-> "delete", item |-> [PK |-> pk, SK |-> sk]]

ApplyReq(tbl, req) ==
    IF req.op = "put" THEN PutItem(tbl, req.item) ELSE DeleteItem(tbl, KeyOf(req.item))

RECURSIVE ApplyAll(_, _)
ApplyAll(tbl, reqs) ==
    IF reqs = <<>> THEN tbl ELSE ApplyAll(ApplyReq(tbl, Head(reqs)), Tail(reqs))

\* BatchWriteItem rejects a request that names one key twice (a
\* ValidationException, raised to the caller as ClientError)
BatchAccepted(reqs) ==
    \A i, j \in 1..Len(reqs) : i # j => KeyOf(reqs[i].item) # KeyOf(reqs[j].item)

RECURSIVE Chunks(_, _)
\* keys_to_get[i:i + n] for i in range(0, len(keys_to_get), n)
Chunks(keys, n) ==
    IF keys = <<>> THEN <<>>
    ELSE IF Len(keys) <= n THEN <<keys>>
    ELSE <<SubSeq(keys, 1, n)>> \o Chunks(SubSeq(keys, n + 1, Len(keys)), n)

\* the items batch_writer sends in one BatchWriteItem request
FlushAmount == 25

\* a batch writer that goes on to its next flush after a failed one
M_BatchWriterRun(tbl, reqs, k) ==
    LET flushes == Chunks(reqs, FlushAmount)
        sent == {i \in 1..Len(flushes) : i # k /\ BatchAccepted(flushes[i])}
    IN  [writes |-> flushes,
         table |-> ApplyAll(tbl, SelectSeq(reqs, LAMBDA r :
                        \E i \in sent : r \in Range(flushes[i]))),
         raised |-> sent # 1..Len(flushes)]

\* a `with table.batch_writer() as batch:` block that queues reqs, on a table
\* that fails the k-th BatchWriteItem request of the block (k < 1: none).
\* The writer flushes each time FlushAmount items are queued and once more
\* when the block exits; a failed request, be it failed by the table or
\* rejected for naming a key twice, applies nothing and raises ClientError
\* out of the block, whose remaining items are never queued.  The result is
\* the requests sent, the table they leave, and whether the block raised.
BatchWriterRun(tbl, reqs, k) ==
    LET flushes == Chunks(reqs, FlushAmount)
        bad == {i \in 1..Len(flushes) : i = k \/ ~BatchAccepted(flushes[i])}
        stop == IF bad = {} THEN Len(flushes) + 1
                ELSE CHOOSE i \in bad : \A j \in bad : i <= j
        done == IF stop > Len(flushes) THEN Len(reqs) ELSE (stop - 1) * FlushAmount
    IN  [writes |-> SubSeq(flushes, 1, IF stop > Len(flushes) THEN Len(flushes) ELSE stop),
         table |-> ApplyAll(tbl, SubSeq(reqs, 1, done)),
         raised |-> bad # {}]

---------------------------------------------------------------------------
(* Preference reconciler, user_preferences/preferences.py *)

\* _get_user_preferences_items
GetUserPreferencesItems(tbl, user) == Query(tbl, USER_PREF_PREFIX \o user)

\* new_prefs_sk_set
NewPrefsSkSet(body) ==
    {SOURCE_PREFIX \o Fmt(s) : s \in Range(Get(body, "sources", <<>>))}
        \cup {GENRE_PREFIX \o Fmt(g) : g \in Range(Get(body, "genres", <<>>))}

ExistingPrefsSkSet(tbl, user) == {item.SK : item \in GetUserPreferencesItems(tbl, user)}

\* a reconciler that puts every desired key, stored already or not
M_ItemsToAdd(tbl, user, body) == NewPrefsSkSet(body)

ItemsToAdd(tbl, user, body) == NewPrefsSkSet(body) \ ExistingPrefsSkSet(tbl, user)

\* a reconciler that never deletes
M_ItemsToDelete(tbl, user, body) == {}

\* a reconciler that deletes every stored row, desired or not
M_ItemsToDeleteAll(tbl, user, body) == ExistingPrefsSkSet(tbl, user)

ItemsToDelete(tbl, user, body) == ExistingPrefsSkSet(tbl, user) \ NewPrefsSkSet(body)

\* the requests queued in the batch_writer block: the deletes, then the puts
SetUserPreferencesReqs(tbl, user, body) ==
    LET pk == USER_PREF_PREFIX \o user
        dels == SeqOf(ItemsToDelete(tbl, user, body))
        adds == SeqOf(ItemsToAdd(tbl, user, body))
    IN  [i \in 1..Len(dels) |-> DeleteReq(pk, dels[i])]
            \o [i \in 1..Len(adds) |-> PutReq([PK |-> pk, SK |-> adds[i]])]

\* the two bodies ask for the same sets of sources and of genres
SamePrefs(b1, b2) ==
    /\ Range(Get(b1, "sources", <<>>)) = Range(Get(b2, "sources", <<>>))
    /\ Range(Get(b1, "genres", <<>>)) = Range(Get(b2, "genres", <<>>))

\* the call repeats the call before it: same user, same preference sets
Repeats(user, body) ==
    /\ lastCall.op = "reconcile"
    /\ lastCall.user = user
    /\ SamePrefs(lastCall.body, body)

\* set_user_preferences(user_id, body) on a table that fails the k-th request
\* of the call (k = 0: none; 1: the query; k > 1: a flush of the batch): the
\* ClientError of the query or of a flush is answered with 500, the early
\* exit with 204 and the body {}, the written delta with a bare 204
SetUserPreferencesFailing(user, body, k) ==
    LET reqs == IF k = 1 THEN <<>> ELSE SetUserPreferencesReqs(store, user, body)
        run == BatchWriterRun(store, reqs, k - 1)
        raised == k = 1 \/ run.raised
    IN  /\ k <= 1 + Len(Chunks(reqs, FlushAmount))
        /\ store' = run.table
        /\ lastCall' = [op |-> "reconcile", impl |-> "preferences", user |-> user,
                        body |-> body, writes |-> run.writes,
                        reads |-> <<[kind |-> "query", pk |-> USER_PREF_PREFIX \o user]>>,
                        result |-> IF raised THEN 500 ELSE 204, pre |-> store,
                        again |-> Repeats(user, body), fail |-> k,
                        reply |-> IF raised
                                  THEN [statusCode |-> 500, body |-> "Could not set preferences"]
                                  ELSE IF reqs = <<>> THEN [statusCode |-> 204, body |-> "{}"]
                                  ELSE [statusCode |-> 204]]
        /\ UNCHANGED <<inFlight, pool>>

\* set_user_preferences(user_id, body)
SetUserPreferences(user, body) == SetUserPreferencesFailing(user, body, 0)

---------------------------------------------------------------------------
(* Preference reader and reconciler, web_api/web_api.py *)

\* get_user_preferences: the ids of the rows whose SK starts with 'source:'
\* and of those whose SK starts with 'genre:', as Python strs
GetUserPreferences(tbl, user) ==
    LET items == Query(tbl, USER_PREF_PREFIX \o user)
    IN  [sources |-> {Split1(item.SK)[2] : item \in {i \in items : StartsWith(i.SK, SOURCE_PREFIX)}},
         genres |-> {Split1(item.SK)[2] :
                        item \in {i \in items : /\ ~StartsWith(i.SK, SOURCE_PREFIX)
                                                /\ StartsWith(i.SK, GENRE_PREFIX)}}]

ExistingSources(tbl, user) == {StrV(s) : s \in GetUserPreferences(tbl, user).sources}
ExistingGenres(tbl, user) == {StrV(g) : g \in GetUserPreferences(tbl, user).genres}
NewSources(data) == Range(Get(data, "sources", <<>>))
NewGenres(data) == Range(Get(data, "genres", <<>>))

SourcesToAdd(tbl, user, data) == NewSources(data) \ ExistingSources(tbl, user)
SourcesToDelete(tbl, user, data) == ExistingSources(tbl, user) \ NewSources(data)
GenresToAdd(tbl, user, data) == NewGenres(data) \ ExistingGenres(tbl, user)
GenresToDelete(tbl, user, data) == ExistingGenres(tbl, user) \ NewGenres(data)

\* a reconciler that files the user under the preference: the row of the
\* put has the preference as its partition and the user as its sort key
M_PutReqs(pk, prefix, ids) ==
    LET l == SeqOf(ids) IN [i \in 1..Len(l) |-> PutReq([PK |-> prefix \o Fmt(l[i]), SK |-> pk])]

\* batch.put_item for each id of ids, under the sort-key prefix
PutReqs(pk, prefix, ids) ==
    LET l == SeqOf(ids) IN [i \in 1..Len(l) |-> PutReq([PK |-> pk, SK |-> prefix \o Fmt(l[i])])]

\* batch.delete_item for each id of ids, under the sort-key prefix
DeleteReqs(pk, prefix, ids) ==
    LET l == SeqOf(ids) IN [i \in 1..Len(l) |-> DeleteReq(pk, prefix \o Fmt(l[i]))]

\* the naive reconciler: delete every stored row, then put every desired one
M_UpdateUserPreferencesReqs(tbl, user, data) ==
    LET pk == USER_PREF_PREFIX \o user
    IN  DeleteReqs(pk, SOURCE_PREFIX, ExistingSources(tbl, user))
            \o DeleteReqs(pk, GENRE_PREFIX, ExistingGenres(tbl, user))
            \o PutReqs(pk, SOURCE_PREFIX, NewSources(data))
            \o PutReqs(pk, GENRE_PREFIX, NewGenres(data))

\* the requests queued in the batch_writer block: the puts, then the deletes
UpdateUserPreferencesReqs(tbl, user, data) ==
    LET pk == USER_PREF_PREFIX \o user
    IN  PutReqs(pk, SOURCE_PREFIX, SourcesToAdd(tbl, user, data))
            \o PutReqs(pk, GENRE_PREFIX, GenresToAdd(tbl, user, data))
            \o DeleteReqs(pk, SOURCE_PREFIX, SourcesToDelete(tbl, user, data))
            \o DeleteReqs(pk, GENRE_PREFIX, GenresToDelete(tbl, user, data))

\* PUT /preferences of web_api on a table that fails the k-th request of the
\* call (k = 0: none; 1: the query; k > 1: a flush of the batch):
\* get_user_preferences answers a failed query with None and
\* update_user_preferences then returns False, as it does on the ClientError
\* of a flush; lambda_handler answers False with 500 and True with 200
UpdateUserPreferencesFailing(user, data, k) ==
    LET reqs == IF k = 1 THEN <<>> ELSE UpdateUserPreferencesReqs(store, user, data)
        run == BatchWriterRun(store, reqs, k - 1)
        raised == k = 1 \/ run.raised
    IN  /\ k <= 1 + Len(Chunks(reqs, FlushAmount))
        /\ store' = run.table
        /\ lastCall' = [op |-> "reconcile", impl |-> "web_api", user |-> user,
                        body |-> data, writes |-> run.writes,
                        reads |-> <<[kind |-> "query", pk |-> USER_PREF_PREFIX \o user]>>,
                        result |-> IF raised THEN 500 ELSE 200, pre |-> store,
                        again |-> Repeats(user, data), fail |-> k,
                        reply |-> IF raised
                                  THEN [statusCode |-> 500, body |-> "Failed to update preferences"]
                                  ELSE [statusCode |-> 200,
                                        body |-> "Preferences updated successfully"]]
        /\ UNCHANGED <<inFlight, pool>>

\* update_user_preferences(user_id, preferences_data)
UpdateUserPreferences(user, data) == UpdateUserPreferencesFailing(user, data, 0)

---------------------------------------------------------------------------
(* Title consumer, title_recommendations_consumer/consumer.py *)

\* records_to_save: the payloads of the records that carry one with an 'id'
RECURSIVE RecordsToSave(_)
RecordsToSave(records) ==
    IF records = <<>> THEN <<>>
    ELSE LET event_data == Head(records)
             title_payload == Get(event_data, "payload", [none |-> TRUE])
         IN  (IF "id" \in DOMAIN title_payload THEN <<title_payload>> ELSE <<>>)
                \o RecordsToSave(Tail(records))

CanonicalItem(title_payload) ==
    [PK |-> TITLE_PREFIX \o Fmt(title_payload.id), SK |-> <<"record">>, data |-> title_payload]

\* a consumer whose index rows carry the title id as an attribute, not in
\* their sort key
M_IndexItem(title_payload, source_id, genre_id) ==
    [PK |-> <<"source", ":">> \o Fmt(source_id) \o <<":", "genre", ":">> \o Fmt(genre_id),
     SK |-> <<"title">>, title_id |-> Fmt(title_payload.id)]

IndexItem(title_payload, source_id, genre_id) ==
    [PK |-> <<"source", ":">> \o Fmt(source_id) \o <<":", "genre", ":">> \o Fmt(genre_id),
     SK |-> <<"title", ":">> \o Fmt(title_payload.id)]

\* a consumer that queues every put, whether its key is queued already or not
M_PutOnce(acc, item) ==
    [reqs |-> Append(acc.reqs, PutReq(item)),
     processed_keys |-> acc.processed_keys \cup {KeyOf(item)}]

\* batch.put_item(item) unless its key is in processed_keys; acc is the pair
\* of the requests queued so far and processed_keys
PutOnce(acc, item) ==
    IF KeyOf(item) \in acc.processed_keys
    THEN acc
    ELSE [reqs |-> Append(acc.reqs, PutReq(item)),
          processed_keys |-> acc.processed_keys \cup {KeyOf(item)}]

RECURSIVE PutIndexItems(_, _, _, _)
\* the two nested loops over source_ids and genre_ids
PutIndexItems(acc, title_payload, source_ids, genre_ids) ==
    IF source_ids = <<>> THEN acc
    ELSE LET RECURSIVE Inner(_, _)
             Inner(a, gs) ==
                IF gs = <<>> THEN a
                ELSE Inner(PutOnce(a, IndexItem(title_payload, Head(source_ids), Head(gs))), Tail(gs))
         IN  PutIndexItems(Inner(acc, genre_ids), title_payload, Tail(source_ids), genre_ids)

\* a consumer that indexes a title without sources (or genres) under the
\* placeholder None instead of skipping it
M_SaveTitle(acc, title_payload) ==
    LET withCanonical == PutOnce(acc, CanonicalItem(title_payload))
        source_ids == Get(title_payload, "source_ids", <<>>)
        genre_ids == Get(title_payload, "genre_ids", <<>>)
        orNone(ids) == IF ids = <<>> THEN <<StrV(<<"None">>)>> ELSE ids
    IN  PutIndexItems(withCanonical, title_payload, orNone(source_ids), orNone(genre_ids))

\* one pass of the loop over records_to_save
SaveTitle(acc, title_payload) ==
    LET withCanonical == PutOnce(acc, CanonicalItem(title_payload))
        source_ids == Get(title_payload, "source_ids", <<>>)
        genre_ids == Get(title_payload, "genre_ids", <<>>)
    IN  IF source_ids = <<>> \/ genre_ids = <<>>
        THEN withCanonical
        ELSE PutIndexItems(withCanonical, title_payload, source_ids, genre_ids)

RECURSIVE SaveTitles(_, _)
SaveTitles(acc, payloads) ==
    IF payloads = <<>> THEN acc ELSE SaveTitles(SaveTitle(acc, Head(payloads)), Tail(payloads))

\* the requests the handler queues in its batch_writer block
ConsumerReqs(records) ==
    SaveTitles([reqs |-> <<>>, processed_keys |-> {}], RecordsToSave(records)).reqs

\* a consumer that logs the ClientError of a flush and goes on to return
M_ConsumeFailing(records, k) ==
    LET reqs == ConsumerReqs(records)
        run == BatchWriterRun(store, reqs, k)
    IN  /\ k <= Len(Chunks(reqs, FlushAmount))
        /\ store' = run.table
        /\ lastCall' = [op |-> "ingest", event |-> records, writes |-> run.writes,
                        reads |-> <<>>, result |-> "processed", pre |-> store,
                        again |-> lastCall.op = "ingest" /\ lastCall.event = records,
                        fail |-> k]
        /\ UNCHANGED <<inFlight, pool>>

\* A record of the event is its decoded JSON object, or [raw |-> kind] when
\* the Kinesis data is no such object.  The decoding loop catches TypeError,
\* JSONDecodeError and UnicodeDecodeError; the binascii.Error of
\* base64.b64decode and the AttributeError of event_data.get on a JSON value
\* that is no object are neither, and leave the handler.
Escapes(record) == Get(record, "raw", "") \in {"not_base64", "not_object"}

\* lambda_handler(event, context) of the consumer on a table that fails the
\* k-th flush of the batch (k = 0: none): the ClientError is raised again,
\* out of the handler; so is the exception of a record that escapes the
\* decoding loop, before anything is queued
ConsumeFailing(records, k) ==
    LET escaped == \E i \in 1..Len(records) : Escapes(records[i])
        reqs == IF escaped THEN <<>> ELSE ConsumerReqs(records)
        run == BatchWriterRun(store, reqs, k)
    IN  /\ k <= Len(Chunks(reqs, FlushAmount))
        /\ store' = run.table
        /\ lastCall' = [op |-> "ingest", event |-> records, writes |-> run.writes,
                        reads |-> <<>>,
                        result |-> IF escaped \/ run.raised THEN "raised" ELSE "processed",
                        pre |-> store,
                        again |-> lastCall.op = "ingest" /\ lastCall.event = records,
                        fail |-> k]
        /\ UNCHANGED <<inFlight, pool>>

\* lambda_handler(event, context) of the consumer
Consume(records) == ConsumeFailing(records, 0)

---------------------------------------------------------------------------
(* Recommendation resolver, web_api/web_api.py *)

\* most keys of one batch_get_item request
BatchGetLimit == 100

\* the threshold of is_recommendation
RecommendationRating == 7

NoFilter == [kind |-> "none"]
RatingAbove(k) == [kind |-> "rating_above", k |-> k]

\* a resolver that never applies its filter
M_FilterAccepts(filter_func, title_data) == TRUE

\* a filter that lets the threshold itself pass
M_FilterAcceptsFrom(filter_func, title_data) ==
    \/ filter_func.kind = "none"
    \/ /\ Get(title_data, "user_rating", 0) # 0
       /\ Get(title_data, "user_rating", 0) >= filter_func.k

\* filter_func(title_data); is_recommendation is RatingAbove(7):
\* user_rating and float(user_rating) > 7
FilterAccepts(filter_func, title_data) ==
    \/ filter_func.kind = "none"
    \/ /\ Get(title_data, "user_rating", 0) # 0
       /\ Get(title_data, "user_rating", 0) > filter_func.k

\* a resolver without the completeness check
M_IsComplete(title_data) == TRUE

\* title_data.get('poster') and title_data.get('plot_overview') are both truthy
IsComplete(title_data) ==
    Get(title_data, "poster", "") # "" /\ Get(title_data, "plot_overview", "") # ""

\* a resolver that, for a user without sources (or without genres), falls
\* back to every partition of the other kind
M_IndexPks(preferences) ==
    LET orAny(ids) == IF ids = {} THEN {<<"*">>} ELSE ids
    IN  IF preferences.sources = {} /\ preferences.genres = {}
        THEN {}
        ELSE {<<"source", ":">> \o s \o <<":", "genre", ":">> \o g :
                s \in orAny(preferences.sources), g \in orAny(preferences.genres)}

\* the index partitions the two nested loops query: none when the user has no
\* sources or no genres
IndexPks(preferences) ==
    IF preferences.sources = {} \/ preferences.genres = {}
    THEN {}
    ELSE {<<"source", ":">> \o s \o <<":", "genre", ":">> \o g :
            s \in preferences.sources, g \in preferences.genres}

\* a resolver that stops collecting after the first index partition
M_TitleIdsToFetch(tbl, preferences) ==
    IF IndexPks(preferences) = {} THEN {}
    ELSE {Split1(item.SK)[2] : item \in Query(tbl, CHOOSE pk \in IndexPks(preferences) : TRUE)}

\* title_ids_to_fetch
TitleIdsToFetch(tbl, preferences) ==
    {Split1(item.SK)[2] : item \in UNION {Query(tbl, pk) : pk \in IndexPks(preferences)}}

KeysToGet(title_ids) == SeqOf({[PK |-> TITLE_PREFIX \o title_id, SK |-> <<"record">>] : title_id \in title_ids})

\* batch_get_item: the stored items among the requested keys
BatchGetItem(tbl, chunk) == {item \in tbl : [PK |-> item.PK, SK |-> item.SK] \in Range(chunk)}

\* the requests the resolver sends to the table, in order
ResolverReads(tbl, user) ==
    LET preferences == GetUserPreferences(tbl, user)
        chunks == Chunks(KeysToGet(TitleIdsToFetch(tbl, preferences)), BatchGetLimit)
    IN  <<[kind |-> "query", pk |-> USER_PREF_PREFIX \o user]>>
            \o [i \in 1..Cardinality(IndexPks(preferences)) |->
                    [kind |-> "query", pk |-> SeqOf(IndexPks(preferences))[i]]]
            \o [i \in 1..Len(chunks) |-> [kind |-> "batch_get", keys |-> chunks[i]]]

\* all_items, as a set: the order of the responses is the table's choice
AllItems(tbl, user) ==
    LET chunks == Chunks(KeysToGet(TitleIdsToFetch(tbl, GetUserPreferences(tbl, user))), BatchGetLimit)
    IN  UNION {BatchGetItem(tbl, chunks[i]) : i \in 1..Len(chunks)}

\* the dict appended to titles
TitleView(item) ==
    LET title_data == Get(item, "data", [none |-> TRUE])
    IN  [id |-> Split1(item.PK)[2],
         title |-> Get(title_data, "title", "Unknown"),
         plot_overview |-> Get(title_data, "plot_overview", "No description available"),
         poster |-> Get(title_data, "poster", ""),
         user_rating |-> Get(title_data, "user_rating", 0),
         source_ids |-> Get(title_data, "source_ids", <<>>),
         genre_ids |-> Get(title_data, "genre_ids", <<>>)]

RECURSIVE Titles(_, _)
\* the loop over all_items
Titles(all_items, filter_func) ==
    IF all_items = <<>> THEN <<>>
    ELSE LET title_data == Get(Head(all_items), "data", [none |-> TRUE])
         IN  (IF FilterAccepts(filter_func, title_data) /\ IsComplete(title_data)
              THEN <<TitleView(Head(all_items))>>
              ELSE <<>>) \o Titles(Tail(all_items), filter_func)

\* the lists that hold each element of S once
Orderings(S) == {l \in [1..Cardinality(S) -> S] : Range(l) = S}

\* None
None == [none |-> TRUE]

\* a resolver that repairs the index while it reads: it deletes the index
\* rows of the partitions it queried whose title it does not return
M_GetTitlesFailing(user, filter_func, k) ==
    LET reads == ResolverReads(store, user)
    IN  /\ k <= Len(reads)
        /\ \E all_items \in Orderings(IF k = 0 THEN AllItems(store, user) ELSE {}) :
            LET titles == Titles(all_items, filter_func)
            IN  /\ lastCall' = [op |-> "resolve", user |-> user, filter |-> filter_func,
                                writes |-> <<>>,
                                reads |-> IF k = 0 THEN reads ELSE SubSeq(reads, 1, k),
                                result |-> titles,
                                pre |-> store, again |-> FALSE, fail |-> k,
                                reply |-> [statusCode |-> 200, body |-> titles]]
                /\ store' = {row \in store :
                                (\E r \in Range(reads) : r.kind = "query" /\ r.pk = row.PK
                                                            /\ row.PK[1] = "source")
                                    => \E t \in Range(titles) : row.SK = <<"title", ":">> \o t.id}
        /\ UNCHANGED <<inFlight, pool>>

\* GET /titles and GET /recommendations on a table that fails the k-th read
\* of the call (k = 0: none): get_user_preferences answers a failed query
\* with None, for which the resolver returns [] as for a user without
\* preferences; the ClientError of an index query or of a batch-get is
\* answered with [] too, and lambda_handler wraps whatever list it gets in
\* a 200 response
GetTitlesFailing(user, filter_func, k) ==
    LET reads == ResolverReads(store, user)
    IN  /\ k <= Len(reads)
        /\ \E all_items \in Orderings(IF k = 0 THEN AllItems(store, user) ELSE {}) :
                lastCall' = [op |-> "resolve", user |-> user, filter |-> filter_func,
                             writes |-> <<>>,
                             reads |-> IF k = 0 THEN reads ELSE SubSeq(reads, 1, k),
                             result |-> Titles(all_items, filter_func),
                             pre |-> store, again |-> FALSE, fail |-> k,
                             reply |-> [statusCode |-> 200,
                                        body |-> Titles(all_items, filter_func)]]
        /\ UNCHANGED <<store, inFlight, pool>>

\* _get_titles_from_dynamo_optimized(user_id, filter_func)
GetTitlesFromDynamoOptimized(user, filter_func) == GetTitlesFailing(user, filter_func, 0)

\* GET /preferences of web_api on a table that fails the query (k = 1) or
\* does not (k = 0): the None of get_user_preferences is wrapped in a 200
\* response like a dict of preferences
GetPreferencesFailing(user, k) ==
    LET preferences == IF k = 1 THEN None ELSE GetUserPreferences(store, user)
    IN  /\ lastCall' = [op |-> "preferences", user |-> user, writes |-> <<>>,
                        reads |-> <<[kind |-> "query", pk |-> USER_PREF_PREFIX \o user]>>,
                        result |-> preferences, pre |-> store, again |-> FALSE, fail |-> k,
                        reply |-> [statusCode |-> 200, body |-> preferences]]
        /\ UNCHANGED <<store, inFlight, pool>>

---------------------------------------------------------------------------
(* Invocations that overlap: each runs in a Lambda instance of its own and  *)
(* reaches the table one request at a time.  The items of a batch write are *)
(* applied one by one, in an order the table chooses.                       *)

\* the Lambda instances that run side by side
Procs == {1, 2}

Idle == [phase |-> "idle"]

\* an instance takes its next invocation when it is not busy.  The records of
\* finished invocations are kept two at a time: a finished record is replaced
\* only while no other invocation is running
Free(p) ==
    /\ inFlight[p].phase # "writing"
    /\ inFlight[p].phase = "done" => \A q \in Procs : inFlight[q].phase # "writing"

\* instance p takes an invocation; the record of a pair finished before it is
\* dropped with the record it replaces
Taken(p, call) ==
    [q \in Procs |-> IF q = p THEN call
                     ELSE IF inFlight[p].phase = "done" THEN Idle ELSE inFlight[q]]

\* the items of a queued batch that are sent to the table
Sendable(reqs) == IF BatchAccepted(reqs) THEN Range(reqs) ELSE {}

\* the batch of a reconcile call, by implementation
ReconcileReqs(impl, tbl, user, body) ==
    IF impl = "preferences"
    THEN SetUserPreferencesReqs(tbl, user, body)
    ELSE UpdateUserPreferencesReqs(tbl, user, body)

\* a reconcile call served by impl, and beside it what each of the two
\* implementations sends for the call and the table that leaves
ReconcileBoth(impl, user, body) ==
    LET run(i) == BatchWriterRun(store, ReconcileReqs(i, store, user, body), 0)
    IN  /\ store' = run(impl).table
        /\ lastCall' = [op |-> "compare", impl |-> impl, user |-> user, body |-> body,
                        pre |-> store, ran |-> [preferences |-> run("preferences"), web_api |-> run("web_api")]]
        /\ UNCHANGED <<inFlight, pool>>

\* the read step of a reconcile call: the query of the user's partition and
\* the delta computed from it; the call returns at once when the delta is empty
BeginReconcile(p, impl, user, body) ==
    LET reqs == ReconcileReqs(impl, store, user, body)
    IN  /\ Free(p)
        /\ inFlight' = Taken(p, [phase |-> IF Sendable(reqs) = {} THEN "done" ELSE "writing",
                                 op |-> "reconcile", impl |-> impl, user |-> user,
                                 body |-> body, pre |-> store, reqs |-> reqs,
                                 pending |-> Sendable(reqs)])
        /\ UNCHANGED <<store, lastCall, pool>>

\* the consumer decodes its event and queues its puts
BeginConsume(p, records) ==
    LET reqs == ConsumerReqs(records)
    IN  /\ Free(p)
        /\ inFlight' = Taken(p, [phase |-> IF Sendable(reqs) = {} THEN "done" ELSE "writing",
                                 op |-> "ingest", event |-> records, pre |-> store,
                                 reqs |-> reqs, pending |-> Sendable(reqs)])
        /\ UNCHANGED <<store, lastCall, pool>>

\* one item of the batch of instance p reaches the table; the invocation
\* returns when the last one has
WriteOne(p) ==
    /\ inFlight[p].phase = "writing"
    /\ \E req \in inFlight[p].pending :
            /\ store' = ApplyReq(store, req)
            /\ inFlight' = [inFlight EXCEPT
                                ![p].pending = @ \ {req},
                                ![p].phase = IF inFlight[p].pending = {req} THEN "done" ELSE "writing"]
    /\ UNCHANGED <<lastCall, pool>>

\* a reader queries the preference partition of a user while other
\* invocations run
ReadPartition(user) ==
    /\ lastCall' = [op |-> "read", user |-> user,
                    result |-> {item.SK : item \in GetUserPreferencesItems(store, user)},
                    during |-> inFlight]
    /\ UNCHANGED <<store, inFlight, pool>>

---------------------------------------------------------------------------
(* A table that answers a query in pages.  A Query response holds the rows  *)
(* of the partition in sort-key order up to the size of a page, and a       *)
(* LastEvaluatedKey when rows are left; the handlers read response['Items'] *)
(* of their one request and never send a second one.                        *)

\* the tokens of the keys of the model, in the order of their UTF-8 bytes
Alphabet == <<"2", ":", "A", "B", "C", "T1", "X", "genre", "record", "source", "title">>

RECURSIVE SortsBefore(_, _)
\* sort key a comes before sort key b
SortsBefore(a, b) ==
    LET rank(t) == CHOOSE i \in 1..Len(Alphabet) : Alphabet[i] = t
    IN  IF b = <<>> THEN FALSE
        ELSE IF a = <<>> THEN TRUE
        ELSE IF Head(a) = Head(b) THEN SortsBefore(Tail(a), Tail(b))
        ELSE rank(Head(a)) < rank(Head(b))

\* the table as single-page queries show it when a page holds limit rows:
\* the first limit rows of every partition
FirstPages(tbl, limit) ==
    {i \in tbl : Cardinality({j \in Query(tbl, i.PK) : SortsBefore(j.SK, i.SK)}) < limit}

\* a reconcile call on a table whose pages hold limit rows: the delta is
\* computed from the first page of the user's partition
ReconcilePaged(impl, user, body, limit) ==
    LET reqs == ReconcileReqs(impl, FirstPages(store, limit), user, body)
        run == BatchWriterRun(store, reqs, 0)
    IN  /\ store' = run.table
        /\ lastCall' = [op |-> "reconcile", impl |-> impl, user |-> user, body |-> body,
                        writes |-> run.writes,
                        reads |-> <<[kind |-> "query", pk |-> USER_PREF_PREFIX \o user]>>,
                        result |-> IF run.raised THEN 500 ELSE IF impl = "web_api" THEN 200 ELSE 204,
                        pre |-> store, seen |-> FirstPages(store, limit)]
        /\ UNCHANGED <<inFlight, pool>>

\* the resolver on a table whose pages hold limit rows: the preferences and
\* the title ids are those of the first page of each partition queried
ResolvePaged(user, filter_func, limit) ==
    \E all_items \in Orderings(AllItems(FirstPages(store, limit), user)) :
        /\ lastCall' = [op |-> "resolve", user |-> user, filter |-> filter_func,
                        writes |-> <<>>, reads |-> ResolverReads(FirstPages(store, limit), user),
                        result |-> Titles(all_items, filter_func),
                        pre |-> store, seen |-> FirstPages(store, limit)]
        /\ UNCHANGED <<store, inFlight, pool>>

---------------------------------------------------------------------------
(* The catalog: the reference upsert of periodic_reference_data/reference.py *)
(* and the listings of GET /sources and GET /genres.  A listing is the set   *)
(* of its entries, each with the key of the row it was made from.            *)

\* a reference writer that gives up at the first item it cannot use
M_SaveItemsReqs(items_list, item_type_prefix) ==
    LET bad == {i \in 1..Len(items_list) : ~({"id", "name"} \subseteq DOMAIN items_list[i])}
        upTo == IF bad = {} THEN Len(items_list) ELSE (CHOOSE i \in bad : \A j \in bad : i <= j) - 1
    IN  [i \in 1..upTo |->
            PutReq([PK |-> item_type_prefix \o Fmt(items_list[i].id),
                    SK |-> items_list[i].name, data |-> items_list[i]])]

\* the puts that _save_items_to_dynamodb queues: one per item that is a dict
\* and has an id and a name (None, which is no dict, has neither)
SaveItemsReqs(items_list, item_type_prefix) ==
    LET valid == SelectSeq(items_list, LAMBDA item : {"id", "name"} \subseteq DOMAIN item)
    IN  [i \in 1..Len(valid) |->
            PutReq([PK |-> item_type_prefix \o Fmt(valid[i].id),
                    SK |-> valid[i].name, data |-> valid[i]])]

\* a reference writer that reports success whatever the batch did
M_SaveItemsFailing(items_list, item_type_prefix, k) ==
    LET reqs == SaveItemsReqs(items_list, item_type_prefix)
        run == BatchWriterRun(store, reqs, k)
    IN  /\ k <= Len(Chunks(reqs, FlushAmount))
        /\ store' = run.table
        /\ lastCall' = [op |-> "refresh", prefix |-> item_type_prefix, items |-> items_list,
                        writes |-> run.writes, result |-> TRUE, pre |-> store, fail |-> k]
        /\ UNCHANGED <<inFlight, pool>>

\* _save_items_to_dynamodb(items_list, item_type_prefix, _) on a table that
\* fails the k-th flush of the batch (k = 0: none): a ClientError of the
\* batch gives False; an empty list ends the call before the batch_writer
\* block, which sends nothing for an empty batch either
SaveItemsFailing(items_list, item_type_prefix, k) ==
    LET reqs == SaveItemsReqs(items_list, item_type_prefix)
        run == BatchWriterRun(store, reqs, k)
    IN  /\ k <= Len(Chunks(reqs, FlushAmount))
        /\ store' = run.table
        /\ lastCall' = [op |-> "refresh", prefix |-> item_type_prefix, items |-> items_list,
                        writes |-> run.writes, result |-> ~run.raised, pre |-> store, fail |-> k]
        /\ UNCHANGED <<inFlight, pool>>

SaveItemsToDynamodb(items_list, item_type_prefix) == SaveItemsFailing(items_list, item_type_prefix, 0)

\* preferences.get_entities(pk_prefix): item.get('data', {}) of every row
\* whose PK begins with the prefix
GetEntities(tbl, pk_prefix) ==
    {[row |-> KeyOf(item), entry |-> Get(item, "data", <<>>)] :
        item \in {i \in tbl : StartsWith(i.PK, pk_prefix)}}

\* web_api.get_ref_data(prefix): id and name of every row whose PK begins
\* with the prefix and splits at ':' into two parts
GetRefData(tbl, prefix) ==
    LET colons(pk) == {n \in 1..Len(pk) : pk[n] = ":"}
        pk_parts1(pk) == SubSeq(pk, (CHOOSE n \in colons(pk) : TRUE) + 1, Len(pk))
    IN  {[row |-> KeyOf(item), entry |-> [id |-> pk_parts1(item.PK), name |-> item.SK]] :
            item \in {i \in tbl : StartsWith(i.PK, prefix) /\ Cardinality(colons(i.PK)) + 1 = 2}}

\* GET /sources, GET /genres of either handler
ListEntities(impl, prefix) ==
    /\ lastCall' = [op |-> "list", impl |-> impl, prefix |-> prefix,
                    reads |-> <<[kind |-> "scan", prefix |-> prefix]>>,
                    result |-> IF impl = "preferences" THEN GetEntities(store, prefix)
                               ELSE GetRefData(store, prefix),
                    pre |-> store]
    /\ UNCHANGED <<store, inFlight, pool>>

---------------------------------------------------------------------------
(* The keys of the entities.  An entity is written by the handler that owns *)
(* its kind: an index triple and a title by the consumer, a preference by   *)
(* set_user_preferences.                                                    *)

\* the key of the row that the code writes for an entity
KeyBuilt(kind, e) ==
    LET record == [payload |-> [id |-> e.id, title |-> "t"]]
        indexed == [payload |-> [id |-> e.id, title |-> "t",
                                 source_ids |-> <<e.source>>, genre_ids |-> <<e.genre>>]]
    IN  CASE kind = "title" -> KeyOf(ConsumerReqs(<<record>>)[1].item)
          [] kind = "index" -> KeyOf(ConsumerReqs(<<indexed>>)[2].item)
          [] kind = "preference" ->
                KeyOf(SetUserPreferencesReqs({}, e.user, [x \in {e.kind} |-> <<e.id>>])[1].item)

\* the keys of two entities of one kind
BuildKeys(kind, e1, e2) ==
    /\ lastCall' = [op |-> "keys", kind |-> kind, entities |-> <<e1, e2>>,
                    result |-> <<KeyBuilt(kind, e1), KeyBuilt(kind, e2)>>]
    /\ UNCHANGED <<store, inFlight, pool>>

---------------------------------------------------------------------------
(* Title enrichment, title_enrichment/enrichment.py.  A record of the event *)
(* is a DynamoDB stream record: its eventName and the PK and SK of its      *)
(* NewImage.  details is what fetch_title_details returns for the call:     *)
(* the decoded answer of the title service, or None.                        *)

\* an enrichment that stores the details as the data of the row
M_UpdateItemData(tbl, key, fields) ==
    {IF KeyOf(i) = key THEN [PK |-> i.PK, SK |-> i.SK, data |-> fields] ELSE i : i \in tbl}

\* table.update_item(Key, "SET #data.<k> = <v>, ..."): the attributes of the
\* map data are set in place; a row that is missing or has no map data
\* makes the document path invalid, the request fails and writes nothing
UpdateItemData(tbl, key, fields) ==
    {IF KeyOf(i) = key /\ "data" \in DOMAIN i
     THEN [i EXCEPT !.data = fields @@ i.data]
     ELSE i : i \in tbl}

RECURSIVE Enriched(_, _, _)
\* the table after the loop over the records of the event; an exception of
\* update_item is caught and the loop goes on
Enriched(tbl, records, details) ==
    IF records = <<>> THEN tbl
    ELSE LET record == Head(records)
             pk == Get(record, "PK", <<>>)
             sk == Get(record, "SK", <<>>)
             skip == \/ Get(record, "eventName", "") # "INSERT"
                     \/ pk = <<>> \/ ~StartsWith(pk, TITLE_PREFIX) \/ sk # <<"record">>
                     \/ details = None \/ DOMAIN details = {}
             fields == [plot_overview |-> Get(details, "plot_overview", "N/A"),
                        poster |-> Get(details, "poster", "N/A"),
                        user_rating |-> Get(details, "user_rating", 0)]
         IN  Enriched(IF skip THEN tbl ELSE UpdateItemData(tbl, <<pk, sk>>, fields),
                      Tail(records), details)

\* lambda_handler(event, context) of the enrichment
Enrich(records, details) ==
    /\ store' = Enriched(store, records, details)
    /\ lastCall' = [op |-> "enrich", event |-> records, details |-> details,
                    result |-> 200, pre |-> store]
    /\ UNCHANGED <<inFlight, pool>>

\* the records the table's stream holds for a change of the table from old
\* to new: INSERT for a row under a new key, MODIFY for a row that replaced
\* another under its key, REMOVE for a key that is gone
StreamRecords(old, new) ==
    SeqOf({[eventName |-> IF \E o \in old : KeyOf(o) = KeyOf(row) THEN "MODIFY" ELSE "INSERT",
            PK |-> row.PK, SK |-> row.SK] : row \in new \ old}
          \cup {[eventName |-> "REMOVE", PK |-> o.PK, SK |-> o.SK] :
                    o \in {r \in old : \A row \in new : KeyOf(row) # KeyOf(r)}})

\* lambda_handler(event, context) of the enrichment, for the stream records
\* of the consumer invocation that ran last
EnrichIngested(details) ==
    /\ lastCall.op = "ingest"
    /\ store' = Enriched(store, StreamRecords(lastCall.pre, store), details)
    /\ lastCall' = [op |-> "enrich", event |-> StreamRecords(lastCall.pre, store),
                    details |-> details, result |-> 200, pre |-> store,
                    ingested |-> lastCall.event, before |-> lastCall.pre]
    /\ UNCHANGED <<inFlight, pool>>

---------------------------------------------------------------------------
(* Scheduled title ingestion, userprefs_title_ingestion/ingestion.py.       *)
(* titles is what fetch_titles returns for the call: the titles that the    *)
(* title service lists for the sources and genres asked for.                *)

\* get_all_user_preferences(): a scan of the whole table for the rows whose
\* PK begins with 'userpref:', all pages of it; the ids behind 'source:' and
\* 'genre:' of their sort keys, each list sorted
GetAllUserPreferences(tbl) ==
    LET items == {i \in tbl : StartsWith(i.PK, USER_PREF_PREFIX)}
        ids(kind) == {Split1(i.SK)[2] : i \in {j \in items : HasColon(j.SK) /\ Split1(j.SK)[1] = <<kind>>}}
        sorted(S) == CHOOSE l \in Orderings(S) :
                        \A m, n \in 1..Len(l) : m < n => SortsBefore(l[m], l[n])
    IN  [sources |-> sorted(ids("source")), genres |-> sorted(ids("genre"))]

\* lambda_handler(event, context) of the ingestion: the records put on the
\* Kinesis stream, one per title, each title with the lists of all preferred
\* sources and genres written over its own
TitleIngestion(titles) ==
    LET preferences == GetAllUserPreferences(store)
        asked == preferences.sources # <<>> /\ preferences.genres # <<>>
        stamp == [source_ids |-> [i \in 1..Len(preferences.sources) |-> StrV(preferences.sources[i])],
                  genre_ids |-> [i \in 1..Len(preferences.genres) |-> StrV(preferences.genres[i])]]
    IN  /\ lastCall' = [op |-> "ingestion", titles |-> titles,
                        reads |-> <<[kind |-> "scan", prefix |-> USER_PREF_PREFIX]>>,
                        preferences |-> preferences,
                        published |-> IF asked
                                      THEN [i \in 1..Len(titles) |->
                                                [header |-> "scheduled_user_prefs_ingestion",
                                                 payload |-> stamp @@ titles[i]]]
                                      ELSE <<>>,
                        result |-> 200, pre |-> store]
        /\ UNCHANGED <<store, inFlight, pool>>

\* fetch_titles(api_key, sources, genres): the titles that the title service
\* lists for the request, those of catalog that are on one of the sources
\* and in one of the genres; a title of the answer carries neither list
FetchTitles(catalog, sources, genres) ==
    IF sources = <<>> \/ genres = <<>> THEN <<>>
    ELSE SeqOf({c.title : c \in {d \in catalog :
                    /\ \E x \in d.sources : Fmt(x) \in Range(sources)
                    /\ \E x \in d.genres : Fmt(x) \in Range(genres)}})

\* lambda_handler(event, context) of the ingestion with a title service that
\* holds catalog
IngestionOf(catalog) ==
    TitleIngestion(FetchTitles(catalog, GetAllUserPreferences(store).sources,
                               GetAllUserPreferences(store).genres))

\* lambda_handler(event, context) of the consumer, for the records that the
\* ingestion that ran last has put on the Kinesis stream
ConsumePublished ==
    /\ lastCall.op = "ingestion"
    /\ lastCall.published # <<>>
    /\ Consume(lastCall.published)

---------------------------------------------------------------------------
(* A table that leaves keys of a batch-get unprocessed.  BatchGetItem       *)
(* answers with the rows of the keys it got to and names the other keys in  *)
(* UnprocessedKeys; it processes at least one key of a request.  The        *)
(* resolver reads response['Responses'] and nothing else.                   *)

\* the resolver on a table that leaves the keys of left unprocessed
ResolveUnprocessed(user, filter_func, left) ==
    LET keys_to_get == KeysToGet(TitleIdsToFetch(store, GetUserPreferences(store, user)))
        chunks == Chunks(keys_to_get, BatchGetLimit)
        got == {item \in AllItems(store, user) : [PK |-> item.PK, SK |-> item.SK] \notin left}
    IN  /\ left \subseteq Range(keys_to_get)
        /\ \A i \in 1..Len(chunks) : ~(Range(chunks[i]) \subseteq left)
        /\ \E all_items \in Orderings(got) :
                lastCall' = [op |-> "resolve", user |-> user, filter |-> filter_func,
                             writes |-> <<>>, reads |-> ResolverReads(store, user),
                             result |-> Titles(all_items, filter_func),
                             got |-> got, unprocessed |-> left, pre |-> store]
        /\ UNCHANGED <<store, inFlight, pool>>

---------------------------------------------------------------------------
(* Cognito user provisioning, add_cognito_user/add_cognito_user.py.  An     *)
(* invocation runs in an environment env: crash (boto3.client raises),      *)
(* late (the first call of check_timeout that finds less than 15 seconds    *)
(* left, 0: no call does), failing (the users whose Cognito calls raise),   *)
(* nogroup (the group SecurityAdmins is missing), reachable (the response   *)
(* URL takes the PUT).                                                      *)

\* is_cloudformation_event(event)
IsCloudformationEvent(event) ==
    {"RequestType", "StackId", "ResponseURL"} \subseteq DOMAIN event

\* a sender that reports FAILED for an invocation with a critical error
M_SendCfnResponse(status, response_data, env) ==
    [Status |-> IF "CriticalError" \in DOMAIN response_data THEN "FAILED" ELSE status,
     Data |-> response_data, delivered |-> env.reachable]

\* send_cfn_response(event, context, status, response_data): the body it
\* PUTs to the response URL and whether the URL took it; a failed PUT is
\* logged and answered with False, which no caller reads
SendCfnResponse(status, response_data, env) ==
    [Status |-> status, Data |-> response_data, delivered |-> env.reachable]

\* parse_list(raw_input): the pieces of a str between its commas, the empty
\* ones dropped; a list as it is
ParseList(raw_input) ==
    IF raw_input.ty = "str" THEN SelectSeq(raw_input.v, LAMBDA t : t # ",") ELSE raw_input.v

\* check_timeout(), called for the i-th time
CheckTimeout(env, i) == env.late # 0 /\ i >= env.late

RECURSIVE DeleteUsers(_, _, _, _)
\* the loop of the Delete branch from usernames[i] on, over the user pool p:
\* a user that is not in the pool is passed over, the error of any other
\* user is a warning, and the loop ends at the first check that finds the
\* timeout near
DeleteUsers(p, usernames, i, env) ==
    IF i > Len(usernames) THEN [pool |-> p, warnings |-> <<>>, timed_out |-> FALSE]
    ELSE IF CheckTimeout(env, i) THEN [pool |-> p, warnings |-> <<>>, timed_out |-> TRUE]
    ELSE LET username == usernames[i]
             failed == username \in env.failing
             rest == DeleteUsers(IF failed THEN p
                                 ELSE [users |-> p.users \ {username},
                                       admins |-> p.admins \ {username}],
                                 usernames, i + 1, env)
         IN  [rest EXCEPT !.warnings =
                    (IF failed THEN <<[w |-> "delete_failed", user |-> username]>> ELSE <<>>) \o @]

RECURSIVE CreateOrUpdateUsers(_, _, _, _, _, _)
\* create_or_update_users(cognito_client, user_pool_id, usernames,
\* admin_usernames, check_timeout_fn) from usernames[i] on, over the user
\* pool p; timed: check_timeout_fn is given
CreateOrUpdateUsers(p, usernames, admin_usernames, i, env, timed) ==
    IF i > Len(usernames)
    THEN [pool |-> p, user_passwords |-> {}, warnings |-> <<>>, failed_users |-> <<>>]
    ELSE IF timed /\ CheckTimeout(env, i)
    THEN [pool |-> p, user_passwords |-> {}, warnings |-> <<[w |-> "timeout"]>>,
          failed_users |-> <<>>]
    ELSE LET username == usernames[i]
             failed == username \in env.failing
             admin == username \in Range(admin_usernames)
             rest == CreateOrUpdateUsers(
                        IF failed THEN p
                        ELSE [users |-> p.users \cup {username},
                              admins |-> IF admin /\ ~env.nogroup
                                         THEN p.admins \cup {username} ELSE p.admins],
                        usernames, admin_usernames, i + 1, env, timed)
         IN  [pool |-> rest.pool,
              user_passwords |-> (IF failed THEN {} ELSE {username}) \cup rest.user_passwords,
              warnings |-> (IF failed THEN <<[w |-> "user_failed", user |-> username]>>
                            ELSE IF admin /\ env.nogroup
                            THEN <<[w |-> "group", user |-> username]>>
                            ELSE <<>>) \o rest.warnings,
              failed_users |-> (IF failed THEN <<username>> ELSE <<>>) \o rest.failed_users]

\* the try block of lambda_handler with its except branch, over the user
\* pool p: the pool it leaves, the responses it has sent, response_sent and
\* response_data as the finally block finds them, and what is returned
HandlerBody(event, env, p) ==
    LET is_cfn_event == IsCloudformationEvent(event)
        request_type == Get(event, "RequestType", "")
        props == IF is_cfn_event THEN Get(event, "ResourceProperties", <<>>) ELSE event
        usernames == ParseList(Get(props, "UserNames", [ty |-> "list", v |-> <<>>]))
        admin_usernames == ParseList(Get(props, "AdminUserNames", [ty |-> "list", v |-> <<>>]))
        outcome(q, data, sent, returned) ==
            [pool |-> q,
             sent |-> IF is_cfn_event THEN <<SendCfnResponse("SUCCESS", data, env)>> ELSE <<>>,
             response_sent |-> is_cfn_event /\ sent,
             response_data |-> data,
             returned |-> IF is_cfn_event THEN None ELSE returned]
    IN  IF env.crash
        THEN outcome(p, [UserPasswords |-> {}, Warnings |-> <<[w |-> "critical"]>>,
                         CriticalError |-> "error"], TRUE, [statusCode |-> 500])
        ELSE IF Get(props, "UserPoolId", "") = ""
        THEN outcome(p, IF is_cfn_event THEN [Warnings |-> <<[w |-> "no_pool"]>>] ELSE <<>>,
                     FALSE, [statusCode |-> 400])
        ELSE IF is_cfn_event /\ request_type = "Delete"
        THEN LET run == DeleteUsers(p, usernames, 1, env)
             IN  outcome(run.pool,
                         (IF run.warnings # <<>> THEN [Warnings |-> run.warnings] ELSE <<>>)
                            @@ (IF run.timed_out
                                THEN [TimeoutWarning |-> "true", Incomplete |-> "true"]
                                ELSE <<>>),
                         TRUE, None)
        ELSE LET run == CreateOrUpdateUsers(p, usernames, admin_usernames, 1, env, is_cfn_event)
                 warnings == IF run.user_passwords = {} /\ run.warnings = <<>>
                             THEN <<[w |-> "none_created"]>> ELSE run.warnings
             IN  outcome(run.pool,
                         [UserPasswords |-> run.user_passwords, Warnings |-> warnings]
                            @@ (IF run.failed_users # <<>>
                                THEN [FailedUsers |-> run.failed_users] ELSE <<>>),
                         TRUE,
                         [statusCode |-> IF run.failed_users = <<>> THEN 200 ELSE 207])

\* lambda_handler(event, context): the try block, then the finally block,
\* which sends the emergency response of a CloudFormation event whose
\* response_sent is still False
AddCognitoUser(event, env) ==
    LET try == HandlerBody(event, env, pool)
        emergency_response == [EmergencyResponse |-> "true"] @@ try.response_data
                                @@ [UserPasswords |-> {}, Warnings |-> <<[w |-> "no_response"]>>]
    IN  /\ pool' = try.pool
        /\ lastCall' = [op |-> "add_cognito_user", event |-> event, env |-> env,
                        sent |-> IF IsCloudformationEvent(event) /\ ~try.response_sent
                                 THEN try.sent \o <<SendCfnResponse("SUCCESS", emergency_response, env)>>
                                 ELSE try.sent,
                        result |-> try.returned]
        /\ UNCHANGED <<store, inFlight>>

---------------------------------------------------------------------------
(* Inputs *)

Users == {<<"U">>}
PrefSourceIds == {StrV(<<"A">>), StrV(<<"B">>)}
\* the genre id A is also a source id: the two kinds must not mix
PrefGenreIds == {StrV(<<"A">>)}

\* decoded PUT /preferences bodies: a key may be missing, a list may repeat an id
Bodies ==
    {[sources |-> s, genres |-> g] : s \in ListsUpTo(PrefSourceIds, MaxPrefLen),
                                     g \in ListsUpTo(PrefGenreIds, MaxPrefLen)}
        \cup {[sources |-> s] : s \in ListsUpTo(PrefSourceIds, MaxPrefLen)}
        \cup {[genres |-> g] : g \in ListsUpTo(PrefGenreIds, MaxPrefLen)}

T1 == StrV(<<"T1">>)
T2 == IntV(2)
A == StrV(<<"A">>)
B == StrV(<<"B">>)
C == StrV(<<"C">>)
X == StrV(<<"X">>)

\* decoded Kinesis records for the consumer: T1 on sources A and B, T1 moved
\* to source C, T2 without a genre list, T2 with an empty source list, and a
\* payload without id
IngestRecords ==
    {[payload |-> [id |-> T1, title |-> "one", source_ids |-> <<A, B>>, genre_ids |-> <<X>>]],
     [payload |-> [id |-> T1, title |-> "one", source_ids |-> <<C>>, genre_ids |-> <<X>>]],
     [payload |-> [id |-> T2, title |-> "two", source_ids |-> <<A>>]],
     [payload |-> [id |-> T2, title |-> "two", source_ids |-> <<>>, genre_ids |-> <<X>>]],
     [payload |-> [title |-> "none"]]}

\* the payloads of the whole system: T1 on source A (rating 8), T1 on
\* sources A and B (rating 10), T2 on source C, T2 on source A without plot,
\* T2 on source B with an empty poster and no rating
TitleRecords ==
    {[payload |-> [id |-> T1, title |-> "one", source_ids |-> <<A>>, genre_ids |-> <<X>>,
                   poster |-> "one.jpg", plot_overview |-> "plot one", user_rating |-> 8]],
     [payload |-> [id |-> T1, title |-> "one", source_ids |-> <<A, B>>, genre_ids |-> <<X>>,
                   poster |-> "one.jpg", plot_overview |-> "plot one", user_rating |-> 10]],
     [payload |-> [id |-> T2, title |-> "two", source_ids |-> <<C>>, genre_ids |-> <<X>>,
                   poster |-> "two.jpg", plot_overview |-> "plot two", user_rating |-> 8]],
     [payload |-> [id |-> T2, title |-> "two", source_ids |-> <<A>>, genre_ids |-> <<X>>,
                   poster |-> "two.jpg", user_rating |-> 8]],
     [payload |-> [id |-> T2, title |-> "two", source_ids |-> <<B>>, genre_ids |-> <<X>>,
                   poster |-> "", plot_overview |-> "plot two"]]}

\* the preference bodies of the whole system
TitleBodies ==
    {[sources |-> s, genres |-> g] : s \in {<<>>, <<A>>, <<A, B>>}, g \in {<<>>, <<X>>}}

\* no filter (GET /titles), is_recommendation (GET /recommendations), and a
\* stricter rating filter
Filters == {NoFilter, RatingAbove(RecommendationRating), RatingAbove(RecommendationRating + 2)}

\* the preference bodies of overlapping reconcile calls
RaceBodies == {[sources |-> s] : s \in {<<>>, <<A>>, <<B>>, <<A, B>>}}

\* the preference bodies of a reconcile call that a reader watches
ReaderBodies ==
    {[sources |-> s, genres |-> g] : s \in {<<A>>, <<A, B>>}, g \in {<<>>, <<X>>}}
        \cup {[sources |-> <<B>>]}

Impls == {"preferences", "web_api"}

\* one id more than a flush of the batch writer holds
ManyIds == {StrV(<<ToString(i)>>) : i \in 1..(FlushAmount + 1)}

\* the preference bodies sent to a table that may fail: none, one source and
\* one genre, more sources than one flush holds
FailBodies ==
    {[sources |-> <<>>, genres |-> <<>>], [sources |-> <<A>>, genres |-> <<X>>],
     [sources |-> SeqOf(ManyIds), genres |-> <<X>>]}

\* the records ingested into a table that may fail: the records above, and
\* a title with more (source, genre) pairs than one flush holds
FailRecords ==
    IngestRecords \cup
    {[payload |-> [id |-> T2, title |-> "two",
                   source_ids |-> SeqOf({StrV(<<ToString(i)>>) :
                                            i \in 1..((FlushAmount + 1) \div 2)}),
                   genre_ids |-> <<X, A>>]]}

\* the events of overlapping consumer invocations: every title has one
\* payload, T1 is in two of the events
RaceT1 == [payload |-> [id |-> T1, title |-> "one", source_ids |-> <<A>>, genre_ids |-> <<X>>]]
RaceT2 == [payload |-> [id |-> T2, title |-> "two", source_ids |-> <<A>>, genre_ids |-> <<X>>]]
RaceEvents == {<<RaceT1>>, <<RaceT2>>, <<RaceT1, RaceT2>>}

---------------------------------------------------------------------------
(* Specifications *)

NoCall == [op |-> "none"]

NoUsers == [users |-> {}, admins |-> {}]

Init == store = {} /\ lastCall = NoCall /\ inFlight = [p \in Procs |-> Idle] /\ pool = NoUsers

PutPreferences == \E u \in Users, body \in Bodies : SetUserPreferences(u, body)

PutPreferencesWeb == \E u \in Users, data \in Bodies : UpdateUserPreferences(u, data)

NextPrefs == PutPreferences \/ PutPreferencesWeb

SpecPrefs == Init /\ [][NextPrefs]_vars

ConsumeTitles == \E records \in ListsUpTo(IngestRecords, MaxBatch) : Consume(records)

NextIngest == ConsumeTitles

SpecIngest == Init /\ [][NextIngest]_vars

SetPreferences == \E u \in Users, data \in TitleBodies : UpdateUserPreferences(u, data)

IngestTitle == \E record \in TitleRecords : Consume(<<record>>)

GetTitles == \E u \in Users, f \in Filters : GetTitlesFromDynamoOptimized(u, f)

Next == SetPreferences \/ IngestTitle \/ GetTitles

Spec == Init /\ [][Next]_vars

\* two reconcile calls at a time, their reads and writes interleaved
StartReconcile ==
    \E p \in Procs, impl \in Impls, u \in Users, body \in RaceBodies :
        BeginReconcile(p, impl, u, body)

WriteItem == \E p \in Procs : WriteOne(p)

NextRace == StartReconcile \/ WriteItem

SpecRace == Init /\ [][NextRace]_vars

\* one reconcile call at a time, and a reader
StartOneReconcile ==
    \E impl \in Impls, u \in Users, body \in ReaderBodies : BeginReconcile(1, impl, u, body)

WriteOneItem == WriteOne(1)

ReadPreferences == \E u \in Users : ReadPartition(u)

NextReader == StartOneReconcile \/ WriteOneItem \/ ReadPreferences

SpecReader == Init /\ [][NextReader]_vars

\* two consumer invocations at a time, their puts interleaved
StartConsume == \E p \in Procs, records \in RaceEvents : BeginConsume(p, records)

PutOneItem == \E p \in Procs : WriteOne(p)

NextIngestRace == StartConsume \/ PutOneItem

SpecIngestRace == Init /\ [][NextIngestRace]_vars

\* the reconcilers on a table that may fail one request of a call
PutPreferencesFailing ==
    \E u \in Users, body \in FailBodies, k \in 0..3 : SetUserPreferencesFailing(u, body, k)

PutPreferencesWebFailing ==
    \E u \in Users, data \in FailBodies, k \in 0..3 : UpdateUserPreferencesFailing(u, data, k)

NextPrefsFailing == PutPreferencesFailing \/ PutPreferencesWebFailing

SpecPrefsFailing == Init /\ [][NextPrefsFailing]_vars

\* the consumer on a table that may fail one flush of a call
IngestFailing == \E record \in FailRecords, k \in 0..2 : ConsumeFailing(<<record>>, k)

NextIngestFailing == IngestFailing

SpecIngestFailing == Init /\ [][NextIngestFailing]_vars

\* the read entry points of web_api on a table that may fail one read of a
\* call, beside the calls that fill the table
GetTitlesOrNot == \E u \in Users, f \in Filters, k \in 0..MaxReads : GetTitlesFailing(u, f, k)

GetPreferencesOrNot == \E u \in Users, k \in 0..1 : GetPreferencesFailing(u, k)

NextReadsFailing == SetPreferences \/ IngestTitle \/ GetTitlesOrNot \/ GetPreferencesOrNot

SpecReadsFailing == Init /\ [][NextReadsFailing]_vars

\* the reconcilers and the resolver on a table that answers in pages
PutPreferencesPaged ==
    \E impl \in Impls, u \in Users, sources \in {<<>>, <<A>>, <<A, B>>}, limit \in 1..MaxPage :
        ReconcilePaged(impl, u, [sources |-> sources, genres |-> <<X>>], limit)

IngestEvents == \E records \in RaceEvents : Consume(records)

GetTitlesPaged == \E u \in Users, limit \in 1..MaxPage : ResolvePaged(u, NoFilter, limit)

NextPaged == PutPreferencesPaged \/ IngestEvents \/ GetTitlesPaged

SpecPaged == Init /\ [][NextPaged]_vars

\* the catalog: reference refreshes, ingestion and the listings.  One item
\* of the reference data has no name
RefreshReference ==
    \E prefix \in {SOURCE_PREFIX, GENRE_PREFIX},
       items_list \in ListsUpTo({[id |-> A, name |-> <<"An">>], [id |-> X, name |-> <<"Xn">>],
                                 [id |-> B]}, 2) :
        SaveItemsToDynamodb(items_list, prefix)

GetCatalog == \E impl \in Impls, prefix \in {SOURCE_PREFIX, GENRE_PREFIX} : ListEntities(impl, prefix)

NextCatalog == RefreshReference \/ IngestEvents \/ GetCatalog

SpecCatalog == Init /\ [][NextCatalog]_vars

\* ids that hold ':' or ':genre:', and the entities made of them
KeyIds == {A, StrV(<<"A", ":", "X">>), StrV(<<"A", ":", "genre", ":", "X">>), StrV(<<"source", ":", "A">>)}

Entities(kind) ==
    CASE kind = "title" -> {[id |-> t] : t \in KeyIds}
      [] kind = "index" ->
            {[source |-> s, genre |-> g, id |-> t] :
                s \in {A, StrV(<<"A", ":", "genre", ":", "X">>)},
                g \in {X, StrV(<<"X", ":", "genre", ":", "X">>)}, t \in {T1, StrV(<<"T1", ":", "A">>)}}
      [] kind = "preference" ->
            {[user |-> u, kind |-> k, id |-> i] :
                u \in {<<"U">>, <<"U", ":", "A">>}, k \in {"sources", "genres"}, i \in KeyIds}

BuildTwoKeys ==
    \E kind \in {"title", "index", "preference"} :
        \E e1, e2 \in Entities(kind) : BuildKeys(kind, e1, e2)

SpecKeys == Init /\ [][BuildTwoKeys]_vars

\* writers and readers of every kind of entity, on ids and names that hold ':'
CodecIds == {A, StrV(<<"A", ":", "X">>)}

WriteReference ==
    \E item \in {[id |-> A, name |-> <<"n">>], [id |-> StrV(<<"A", ":", "X">>), name |-> <<"n", ":", "m">>]} :
        SaveItemsToDynamodb(<<item>>, SOURCE_PREFIX)

PutCodecPreferences ==
    \E impl \in Impls, u \in Users, sources \in ListsUpTo(CodecIds, 1) :
        IF impl = "preferences"
        THEN SetUserPreferences(u, [sources |-> sources, genres |-> <<X>>])
        ELSE UpdateUserPreferences(u, [sources |-> sources, genres |-> <<X>>])

GetCodecPreferences == \E u \in Users : GetPreferencesFailing(u, 0)

IngestCodec ==
    \E source_id \in CodecIds :
        Consume(<<[payload |-> [id |-> StrV(<<"T1", ":", "A">>), title |-> "one", source_ids |-> <<source_id>>,
                               genre_ids |-> <<X>>, poster |-> "one.jpg",
                               plot_overview |-> "plot one", user_rating |-> 8]]>>)

GetCodecTitles == \E u \in Users : GetTitlesFromDynamoOptimized(u, NoFilter)

NextCodec ==
    \/ WriteReference
    \/ GetCatalog
    \/ PutCodecPreferences
    \/ GetCodecPreferences
    \/ IngestCodec
    \/ GetCodecTitles

SpecCodec == Init /\ [][NextCodec]_vars

\* reference refreshes on a table that may fail the batch: source A comes
\* under two names, one item has no name, one is None
Refresh ==
    \E items_list \in ListsUpTo({[id |-> A, name |-> <<"An">>], [id |-> A, name |-> <<"An2">>],
                                 [id |-> B], None}, 3), k \in 0..1 :
        SaveItemsFailing(items_list, SOURCE_PREFIX, k)

SpecReference == Init /\ [][Refresh]_vars

\* the consumer on events with records that carry no title: an object
\* without payload, a payload without id, data that is no JSON, data that is
\* no base64, and a JSON value that is no object
IngestRaw ==
    \E records \in ListsUpTo({RaceT1, RaceT2, [source |-> "x"], [payload |-> [title |-> "none"]],
                              [raw |-> "not_json"], [raw |-> "not_base64"],
                              [raw |-> "not_object"]}, 2) :
        Consume(records)

SpecIngestRaw == Init /\ [][IngestRaw]_vars

\* titles with every kind of rating: complete titles on source A and genre
\* X, rated 8, 7, 0 or not at all
IngestRated ==
    \E id \in {T1, T2}, rating \in {[user_rating |-> 8], [user_rating |-> RecommendationRating],
                                    [user_rating |-> 0], <<>>} :
        Consume(<<[payload |-> [id |-> id, title |-> "t", source_ids |-> <<A>>, genre_ids |-> <<X>>,
                               poster |-> "p.jpg", plot_overview |-> "plot"] @@ rating]>>)

NextRated == SetPreferences \/ IngestRated \/ GetTitles

SpecRated == Init /\ [][NextRated]_vars

\* the enrichment beside the consumer: the stream records name rows of the
\* table or a title row that is gone, the title service answers with all
\* details, with none of the three attributes, or not at all
EnrichTitles ==
    \E records \in ListsUpTo({[eventName |-> e, PK |-> row.PK, SK |-> row.SK] :
                                e \in {"INSERT", "MODIFY"}, row \in store}
                             \cup {[eventName |-> "INSERT", PK |-> <<"title", ":", "C">>,
                                    SK |-> <<"record">>]}, 2),
       details \in {[plot_overview |-> "plot", poster |-> "p.jpg", user_rating |-> 8],
                    [title |-> "t"], None} :
        Enrich(records, details)

NextEnrich == IngestEvents \/ EnrichTitles

SpecEnrich == Init /\ [][NextEnrich]_vars

\* every entry point that reads, beside the consumer, the enrichment of one
\* stream record and the reconciler of web_api
EnrichOne ==
    \E row \in store, details \in {[plot_overview |-> "plot", poster |-> "p.jpg", user_rating |-> 8], None} :
        Enrich(<<[eventName |-> "INSERT", PK |-> row.PK, SK |-> row.SK]>>, details)

NextFrame ==
    \/ SetPreferences
    \/ IngestEvents
    \/ EnrichOne
    \/ GetTitles
    \/ GetCodecPreferences
    \/ GetCatalog

SpecFrame == Init /\ [][NextFrame]_vars

\* the handlers that scan the table, beside the calls that fill it
RunIngestion ==
    \E titles \in ListsUpTo({[id |-> T1, title |-> "one"], [id |-> T2, title |-> "two"]}, 2) :
        TitleIngestion(titles)

NextScans == SetPreferences \/ IngestEvents \/ GetCatalog \/ RunIngestion

SpecScans == Init /\ [][NextScans]_vars

\* the resolver on a table that may leave keys of a batch-get unprocessed
GetTitlesUnprocessed ==
    \E u \in Users, left \in SUBSET {[PK |-> TITLE_PREFIX \o Fmt(id), SK |-> <<"record">>] : id \in {T1, T2}} :
        ResolveUnprocessed(u, NoFilter, left)

NextUnprocessed == SetPreferences \/ IngestEvents \/ GetTitlesUnprocessed

SpecUnprocessed == Init /\ [][NextUnprocessed]_vars

\* the enrichment of one inserted row beside the resolver: the title service
\* answers with all details, without a plot, with a title only, or not at all
EnrichPartly ==
    \E row \in store,
       details \in {[plot_overview |-> "plot", poster |-> "p.jpg", user_rating |-> 8],
                    [title |-> "t", poster |-> "p.jpg"], [title |-> "t"], None} :
        Enrich(<<[eventName |-> "INSERT", PK |-> row.PK, SK |-> row.SK]>>, details)

PreferAX == \E u \in Users : UpdateUserPreferences(u, [sources |-> <<A>>, genres |-> <<X>>])

NextShown == PreferAX \/ IngestEvents \/ EnrichPartly \/ GetCodecTitles

SpecShown == Init /\ [][NextShown]_vars

\* the enrichment runs on the stream of every consumer invocation; the
\* title service answers with all details or not at all
EnrichStream ==
    \E details \in {[plot_overview |-> "plot", poster |-> "p.jpg", user_rating |-> 8], None} :
        EnrichIngested(details)

NextRerun == PreferAX \/ IngestEvents \/ EnrichStream \/ GetCodecTitles

SpecRerun == Init /\ [][NextRerun]_vars

\* the title service lists title T1 for source A and genre X, title 2 for
\* source B and genre X
Upstream ==
    {[title |-> [id |-> T1, title |-> "one"], sources |-> {A}, genres |-> {X}],
     [title |-> [id |-> T2, title |-> "two"], sources |-> {B}, genres |-> {X}]}

\* two users choose their sources
PreferSources ==
    \E u \in {<<"U">>, <<"V">>}, sources \in {<<>>, <<A>>, <<B>>} :
        UpdateUserPreferences(u, [sources |-> sources, genres |-> <<X>>])

ScheduledIngestion == IngestionOf(Upstream)

NextPipeline == PreferSources \/ ScheduledIngestion \/ ConsumePublished

SpecPipeline == Init /\ [][NextPipeline]_vars

\* the bodies handed to both reconcilers: ids as JSON strings, and one id as
\* a JSON number
EquivBodies ==
    {[sources |-> s, genres |-> g] : s \in {<<>>, <<A>>, <<A, B>>, <<IntV(1)>>}, g \in {<<>>, <<X>>}}

ReconcileEither == \E impl \in Impls, u \in Users, body \in EquivBodies : ReconcileBoth(impl, u, body)

\* the partition of a user holds a row that is no preference row: the table
\* is shared, and the query of the partition has no condition on the sort key
PutOtherRow ==
    /\ \E u \in Users : store' = PutItem(store, [PK |-> USER_PREF_PREFIX \o u, SK |-> <<"profile">>])
    /\ lastCall' = [op |-> "other"]
    /\ UNCHANGED <<inFlight, pool>>

NextEquiv == ReconcileEither \/ PutOtherRow

SpecEquiv == Init /\ [][NextEquiv]_vars

\* two users reconcile, by either implementation, on a table that holds
\* titles and may fail the query or the flush of a call
ReconcileOwn ==
    \E impl \in Impls, u \in {<<"U">>, <<"V">>}, k \in 0..2,
       body \in {[sources |-> <<>>, genres |-> <<>>], [sources |-> <<A>>, genres |-> <<X>>]} :
        IF impl = "preferences"
        THEN SetUserPreferencesFailing(u, body, k)
        ELSE UpdateUserPreferencesFailing(u, body, k)

NextOwn == ReconcileOwn \/ IngestEvents

SpecOwn == Init /\ [][NextOwn]_vars

\* the properties of a custom resource: with or without UserPoolId, the
\* user names as a list or as one comma-separated str
ResourceProperties ==
    {[UserNames |-> [ty |-> "list", v |-> <<>>]]}
        \cup {[UserPoolId |-> "pool", UserNames |-> names,
               AdminUserNames |-> [ty |-> "list", v |-> <<"a">>]] :
                names \in {[ty |-> "list", v |-> <<>>], [ty |-> "list", v |-> <<"a", "b">>],
                           [ty |-> "str", v |-> <<"a", ",", "b">>]}}

\* CloudFormation custom-resource events, and the direct invocations, whose
\* event is the properties
CognitoEvents ==
    {[RequestType |-> t, StackId |-> "stack", ResponseURL |-> "url", RequestId |-> "r",
      LogicalResourceId |-> "l", ResourceProperties |-> props] :
        t \in {"Create", "Delete"}, props \in ResourceProperties}
        \cup ResourceProperties

\* the environments of an invocation
CognitoEnvs ==
    {[crash |-> crash, late |-> late, failing |-> failing, nogroup |-> nogroup,
      reachable |-> reachable] :
        crash \in {FALSE}, late \in 0..2, failing \in {{}, {"a"}}, nogroup \in BOOLEAN,
        reachable \in BOOLEAN}
        \cup {[crash |-> TRUE, late |-> 0, failing |-> {}, nogroup |-> FALSE, reachable |-> TRUE]}

ProvisionUsers == \E event \in CognitoEvents, env \in CognitoEnvs : AddCognitoUser(event, env)

SpecCognito == Init /\ [][ProvisionUsers]_vars

---------------------------------------------------------------------------
(* Claims about the reconcilers, checked under SpecPrefs *)

\* the preference rows a body asks for, written out from the key scheme
\* userpref:<user> / source:<id> | genre:<id>
DesiredSKs(body) ==
    {<<"source", ":">> \o s.v : s \in Range(Get(body, "sources", <<>>))}
        \cup {<<"genre", ":">> \o g.v : g \in Range(Get(body, "genres", <<>>))}

\* the sort keys stored for a user
StoredSKs(tbl, user) == {item.SK : item \in {i \in tbl : i.PK = <<"userpref", ":">> \o user}}

Reconciled == lastCall.op = "reconcile"

\* C1: after a reconcile call (whatever calls and states came before it) the
\* rows stored under userpref:<user> are exactly source:<s> for the desired
\* sources and genre:<g> for the desired genres, each with no attribute but
\* its key.
C1_FinalStateIsDesired ==
    Reconciled =>
        {i \in store : i.PK = <<"userpref", ":">> \o lastCall.user}
            = {[PK |-> <<"userpref", ":">> \o lastCall.user, SK |-> sk] :
                    sk \in DesiredSKs(lastCall.body)}

\* a reconcile call that replaced one stored set by another: it deleted a row
\* of the earlier call and put a new one
C1_Witness ==
    /\ Reconciled
    /\ Len(lastCall.writes) = 1
    /\ \E i, j \in 1..Len(lastCall.writes[1]) :
            lastCall.writes[1][i].op = "delete" /\ lastCall.writes[1][j].op = "put"

\* the delta of a reconcile call, from the table it found and its body
DeltaPuts(call) == DesiredSKs(call.body) \ StoredSKs(call.pre, call.user)
DeltaDeletes(call) == StoredSKs(call.pre, call.user) \ DesiredSKs(call.body)

\* C2: a reconcile call with a non-empty delta issues exactly one batch write,
\* holding one put per key of desired \ existing, one delete per key of
\* existing \ desired, and nothing else; no unchanged key is written and no
\* key is both put and deleted.
C2_OneBatchOfTheDelta ==
    (Reconciled /\ (DeltaPuts(lastCall) # {} \/ DeltaDeletes(lastCall) # {})) =>
        /\ Len(lastCall.writes) = 1
        /\ LET batch == lastCall.writes[1]
               pk == <<"userpref", ":">> \o lastCall.user
               unchanged == DesiredSKs(lastCall.body) \cap StoredSKs(lastCall.pre, lastCall.user)
           IN  /\ Len(batch) = Cardinality(DeltaPuts(lastCall)) + Cardinality(DeltaDeletes(lastCall))
               /\ Range(batch) = {[op |-> "put", item |-> [PK |-> pk, SK |-> sk]] :
                                        sk \in DeltaPuts(lastCall)}
                                 \cup {[op |-> "delete", item |-> [PK |-> pk, SK |-> sk]] :
                                        sk \in DeltaDeletes(lastCall)}
               /\ \A i \in 1..Len(batch) : batch[i].item.SK \notin unchanged
               /\ \A i, j \in 1..Len(batch) : i # j => batch[i].item # batch[j].item

\* sources {A} reconciled to {A, B}: one batch write, one put (B), no delete
C2_Witness ==
    /\ Reconciled
    /\ StoredSKs(lastCall.pre, lastCall.user) = {<<"source", ":", "A">>}
    /\ DesiredSKs(lastCall.body) = {<<"source", ":", "A">>, <<"source", ":", "B">>}
    /\ lastCall.writes =
            <<<<[op |-> "put", item |-> [PK |-> <<"userpref", ":">> \o lastCall.user,
                                         SK |-> <<"source", ":", "B">>]]>>>>

\* C3: a reconcile call that repeats the preference sets of the call before
\* it (same user, nothing in between) writes nothing and leaves the table as
\* it found it.
C3_SecondApplyWritesNothing ==
    (Reconciled /\ lastCall.again) => (lastCall.writes = <<>> /\ store = lastCall.pre)

\* a non-empty preference set applied twice in a row
C3_Witness ==
    /\ Reconciled
    /\ lastCall.again
    /\ Get(lastCall.body, "sources", <<>>) # <<>>
    /\ Get(lastCall.body, "genres", <<>>) # <<>>

---------------------------------------------------------------------------
(* Claims about the consumer, checked under SpecIngest *)

\* the text of an id inside a key
Text(x) == IF x.ty = "int" THEN <<Digits[x.v]>> ELSE x.v

\* the payloads of an event that carry an id
ValidPayloads(event) ==
    {event[i].payload : i \in {j \in DOMAIN event : /\ "payload" \in DOMAIN event[j]
                                                    /\ "id" \in DOMAIN event[j].payload}}

\* the (source, genre) pairs a payload lists
Pairs(payload) ==
    Range(Get(payload, "source_ids", <<>>)) \X Range(Get(payload, "genre_ids", <<>>))

\* the rows of the data model: title:<id> / record, and
\* source:<s>:genre:<g> / title:<id>
CanonicalRow(payload) ==
    [PK |-> <<"title", ":">> \o Text(payload.id), SK |-> <<"record">>, data |-> payload]

IndexRow(s, g, t) ==
    [PK |-> <<"source", ":">> \o Text(s) \o <<":", "genre", ":">> \o Text(g),
     SK |-> <<"title", ":">> \o Text(t)]

IndexRowsOf(payload) == {IndexRow(sg[1], sg[2], payload.id) : sg \in Pairs(payload)}

\* the table after payload has been ingested once into tbl
OnceAfter(tbl, payload) ==
    {i \in tbl : ~(i.PK = <<"title", ":">> \o Text(payload.id) /\ i.SK = <<"record">>)}
        \cup {CanonicalRow(payload)} \cup IndexRowsOf(payload)

Ingested == lastCall.op = "ingest"

\* C4: a payload that is twice in one consumer batch, or is ingested by two
\* consumer invocations in a row, leaves the table as one ingestion of it
\* does: one canonical row (title:<id>, record) and one index row per
\* (s, g) of source_ids x genre_ids.
C4_TwiceIsOnce ==
    /\ (Ingested /\ Len(lastCall.event) = 2 /\ lastCall.event[1] = lastCall.event[2]
            /\ ValidPayloads(lastCall.event) # {}) =>
          LET payload == lastCall.event[1].payload
          IN  /\ store = OnceAfter(lastCall.pre, payload)
              /\ Cardinality({i \in store : /\ i.PK = <<"title", ":">> \o Text(payload.id)
                                            /\ i.SK = <<"record">>}) = 1
              /\ \A sg \in Pairs(payload) :
                    Cardinality({i \in store : <<i.PK, i.SK>> =
                        <<IndexRow(sg[1], sg[2], payload.id).PK,
                          IndexRow(sg[1], sg[2], payload.id).SK>>}) = 1
    /\ (Ingested /\ lastCall.again) => store = lastCall.pre

\* a batch holding the same payload (with two index pairs) twice, handed to
\* two consumer invocations in a row
C4_Witness ==
    /\ Ingested
    /\ lastCall.again
    /\ Len(lastCall.event) = 2
    /\ lastCall.event[1] = lastCall.event[2]
    /\ ValidPayloads(lastCall.event) # {}
    /\ Cardinality(Pairs(lastCall.event[1].payload)) = 2
    /\ lastCall.result = "processed"

AllSources == {A, B, C}
AllGenres == {X}
AllTitles == {T1, T2}

\* the canonical record of title t lists source s and genre g
Lists(tbl, s, g, t) ==
    \E c \in tbl :
        /\ c.PK = <<"title", ":">> \o Text(t)
        /\ c.SK = <<"record">>
        /\ s \in Range(Get(c.data, "source_ids", <<>>))
        /\ g \in Range(Get(c.data, "genre_ids", <<>>))

StoredIndexRows(tbl) == {i \in tbl : Len(i.SK) >= 2 /\ SubSeq(i.SK, 1, 2) = <<"title", ":">>}

\* C5: in every state reached by ingest calls an index row
\* (source:<s>:genre:<g>, title:<t>) exists if and only if the canonical
\* record of t lists s and g, also after t is re-ingested with changed lists.
C5_IndexIffListed ==
    \A s \in AllSources, g \in AllGenres, t \in AllTitles :
        IndexRow(s, g, t) \in store <=> Lists(store, s, g, t)

\* C6: an ingest call queues a put of the canonical row key of every payload
\* with an id, and every other put it queues is an index row of a pair that
\* some payload of the batch lists: a payload whose source_ids or genre_ids is
\* empty or missing lists no pair and gets no index row.
C6_NoIndexRowWithoutBothLists ==
    Ingested =>
        LET reqs == IF lastCall.writes = <<>> THEN <<>> ELSE lastCall.writes[1]
            payloads == ValidPayloads(lastCall.event)
        IN  /\ Len(lastCall.writes) <= 1
            /\ \A p \in payloads :
                    \E i \in 1..Len(reqs) :
                        /\ reqs[i].op = "put"
                        /\ reqs[i].item.PK = CanonicalRow(p).PK
                        /\ reqs[i].item.SK = CanonicalRow(p).SK
            /\ \A i \in 1..Len(reqs) :
                    /\ reqs[i].op = "put"
                    /\ \E p \in payloads :
                            reqs[i].item = CanonicalRow(p) \/ reqs[i].item \in IndexRowsOf(p)

\* a batch of two payloads of T2, one without genre_ids and one with empty
\* source_ids: the canonical row is put and nothing else
C6_Witness ==
    /\ Ingested
    /\ Len(lastCall.event) = 2
    /\ Cardinality(ValidPayloads(lastCall.event)) = 2
    /\ \A p \in ValidPayloads(lastCall.event) : Pairs(p) = {}
    /\ \E p \in ValidPayloads(lastCall.event) : "genre_ids" \notin DOMAIN p
    /\ \E p \in ValidPayloads(lastCall.event) : Get(p, "source_ids", <<>>) = <<>>
    /\ Len(lastCall.writes) = 1
    /\ Len(lastCall.writes[1]) = 1
    /\ lastCall.writes[1][1].item.SK = <<"record">>

---------------------------------------------------------------------------
(* Claims about the resolver, checked under Spec *)

Resolved == lastCall.op = "resolve"

\* the ids of the rows userpref:<user> / <kind>:<id> of a table
StoredIds(tbl, user, kind) ==
    {SubSeq(sk, 3, Len(sk)) : sk \in {k \in StoredSKs(tbl, user) : Len(k) >= 2 /\ k[1] = kind /\ k[2] = ":"}}

\* the canonical rows (title:<t>, record) of a table, t the text of the id
CanonicalRowsOf(tbl, t) == {c \in tbl : c.PK = <<"title", ":">> \o t /\ c.SK = <<"record">>}

\* the texts of the title ids named by some row of a table
TitleTexts(tbl) ==
    {SubSeq(i.SK, 3, Len(i.SK)) : i \in StoredIndexRows(tbl)}

HasPosterAndPlot(c) ==
    /\ "data" \in DOMAIN c
    /\ "poster" \in DOMAIN c.data /\ c.data.poster # ""
    /\ "plot_overview" \in DOMAIN c.data /\ c.data.plot_overview # ""

\* the rating filters: no filter accepts every record, a rating filter those
\* rated above its threshold
Accepts(filter, c) ==
    filter.kind = "none" \/ ("user_rating" \in DOMAIN c.data /\ c.data.user_rating > filter.k)

\* the titles resolve is to return for a user
Matching(tbl, user, filter) ==
    {t \in TitleTexts(tbl) :
        /\ \E s \in StoredIds(tbl, user, "source"), g \in StoredIds(tbl, user, "genre") :
                [PK |-> <<"source", ":">> \o s \o <<":", "genre", ":">> \o g,
                 SK |-> <<"title", ":">> \o t] \in tbl
        /\ \E c \in CanonicalRowsOf(tbl, t) : HasPosterAndPlot(c) /\ Accepts(filter, c)}

\* C7: for a user with stored sources S and genres G, both non-empty, resolve
\* returns exactly the titles t that have an index row
\* (source:s:genre:g, title:t) for some s in S and g in G and a canonical row
\* with poster and plot that the filter accepts, each title once.
C7_ResolveReturnsTheMatches ==
    (/\ Resolved
     /\ StoredIds(store, lastCall.user, "source") # {}
     /\ StoredIds(store, lastCall.user, "genre") # {}) =>
        /\ {lastCall.result[i].id : i \in 1..Len(lastCall.result)}
                = Matching(store, lastCall.user, lastCall.filter)
        /\ Len(lastCall.result) = Cardinality(Matching(store, lastCall.user, lastCall.filter))

\* a user with sources A and B and genre X, two titles returned, one of them
\* indexed under both (A, X) and (B, X)
C7_Witness ==
    /\ Resolved
    /\ StoredIds(store, lastCall.user, "source") = {<<"A">>, <<"B">>}
    /\ StoredIds(store, lastCall.user, "genre") = {<<"X">>}
    /\ IndexRow(A, X, T1) \in store
    /\ IndexRow(B, X, T1) \in store
    /\ Len(lastCall.result) = 2
    /\ \E i \in 1..2 : lastCall.result[i].id = <<"T1">>

\* C8: no title whose canonical record lacks a poster or a plot text (the
\* attribute missing or empty) is in the result of GetTitlesForUser or of
\* GetRecommendationsForUser.
C8_IncompleteNeverReturned ==
    Resolved =>
        \A i \in 1..Len(lastCall.result) :
            /\ CanonicalRowsOf(store, lastCall.result[i].id) # {}
            /\ \A c \in CanonicalRowsOf(store, lastCall.result[i].id) : HasPosterAndPlot(c)

\* a title without plot text that the index links to the user's source and
\* genre, left out of a result that returns another title
C8_Witness ==
    /\ Resolved
    /\ lastCall.filter = NoFilter
    /\ StoredIds(store, lastCall.user, "source") = {<<"A">>}
    /\ StoredIds(store, lastCall.user, "genre") = {<<"X">>}
    /\ IndexRow(A, X, T2) \in store
    /\ \E c \in CanonicalRowsOf(store, <<"2">>) : "plot_overview" \notin DOMAIN c.data
    /\ Len(lastCall.result) = 1
    /\ lastCall.result[1].id = <<"T1">>

\* C9: for a user with no stored sources or no stored genres resolve returns
\* the empty sequence and reads nothing but the user's preference partition,
\* once: no index partition, no batch-get, no scan.
C9_NoPreferencesNoReads ==
    (/\ Resolved
     /\ \/ StoredIds(store, lastCall.user, "source") = {}
        \/ StoredIds(store, lastCall.user, "genre") = {}) =>
        /\ lastCall.result = <<>>
        /\ lastCall.reads = <<[kind |-> "query", pk |-> <<"userpref", ":">> \o lastCall.user]>>

\* a user with sources but no genre, resolved on a table that holds indexed,
\* complete titles
C9_Witness ==
    /\ Resolved
    /\ StoredIds(store, lastCall.user, "source") # {}
    /\ StoredIds(store, lastCall.user, "genre") = {}
    /\ IndexRow(A, X, T1) \in store
    /\ \E c \in CanonicalRowsOf(store, <<"T1">>) : HasPosterAndPlot(c)

\* the table of the scenario: U reconciled to sources {A, B} and genres {X},
\* T1 (source A, genre X, poster, plot, rating 8) and T2 (source C, genre X)
\* ingested, and nothing else
ScenarioT1 ==
    [id |-> T1, title |-> "one", source_ids |-> <<A>>, genre_ids |-> <<X>>,
     poster |-> "one.jpg", plot_overview |-> "plot one", user_rating |-> 8]

ScenarioT2 ==
    [id |-> T2, title |-> "two", source_ids |-> <<C>>, genre_ids |-> <<X>>,
     poster |-> "two.jpg", plot_overview |-> "plot two", user_rating |-> 8]

ScenarioTable ==
    {[PK |-> <<"userpref", ":", "U">>, SK |-> <<"source", ":", "A">>],
     [PK |-> <<"userpref", ":", "U">>, SK |-> <<"source", ":", "B">>],
     [PK |-> <<"userpref", ":", "U">>, SK |-> <<"genre", ":", "X">>],
     [PK |-> <<"title", ":", "T1">>, SK |-> <<"record">>, data |-> ScenarioT1],
     [PK |-> <<"title", ":", "2">>, SK |-> <<"record">>, data |-> ScenarioT2],
     [PK |-> <<"source", ":", "A", ":", "genre", ":", "X">>, SK |-> <<"title", ":", "T1">>],
     [PK |-> <<"source", ":", "C", ":", "genre", ":", "X">>, SK |-> <<"title", ":", "2">>]}

ScenarioT1View ==
    [id |-> <<"T1">>, title |-> "one", plot_overview |-> "plot one", poster |-> "one.jpg",
     user_rating |-> 8, source_ids |-> <<A>>, genre_ids |-> <<X>>]

\* C10: on the table of the scenario resolve(U) returns [T1] without filter
\* and with the rating > 7 filter, and [] with the rating > 9 filter.
C10_Scenario ==
    (Resolved /\ lastCall.user = <<"U">> /\ store = ScenarioTable) =>
        /\ lastCall.filter = [kind |-> "none"] => lastCall.result = <<ScenarioT1View>>
        /\ lastCall.filter = [kind |-> "rating_above", k |-> 7] =>
                lastCall.result = <<ScenarioT1View>>
        /\ lastCall.filter = [kind |-> "rating_above", k |-> 9] => lastCall.result = <<>>

\* resolve(U) with the rating > 9 filter on the table of the scenario
C10_Witness ==
    /\ Resolved
    /\ lastCall.user = <<"U">>
    /\ store = ScenarioTable
    /\ lastCall.filter = [kind |-> "rating_above", k |-> 9]
    /\ lastCall.result = <<>>

---------------------------------------------------------------------------
(* Claims about overlapping invocations, checked under SpecRace, SpecReader *)
(* and SpecIngestRace                                                       *)

\* every instance holds the record of a finished call of the operation
BothDone(op) == \A p \in Procs : inFlight[p].phase = "done" /\ inFlight[p].op = op

\* C11: once two reconcile calls for the same user, whose reads and writes
\* interleave in any way, have both returned, the rows stored under
\* userpref:<user> are exactly the desired rows of one of the two calls,
\* never a mixture.
C11_OneOfTheTwoSets ==
    (BothDone("reconcile") /\ inFlight[1].user = inFlight[2].user) =>
        \E p \in Procs : StoredSKs(store, inFlight[1].user) = DesiredSKs(inFlight[p].body)

\* C12: a read of the preference partition taken while one reconcile call is
\* between its read step and its last write holds every key that is both
\* stored before the call (P1) and desired by it (P2), and no key outside
\* P1 \cup P2.
C12_ReaderSeesNoGap ==
    lastCall.op = "read" =>
        \A p \in Procs :
            (lastCall.during[p].phase = "writing" /\ lastCall.during[p].user = lastCall.user) =>
                LET P1 == StoredSKs(lastCall.during[p].pre, lastCall.user)
                    P2 == DesiredSKs(lastCall.during[p].body)
                IN  /\ (P1 \cap P2) \subseteq lastCall.result
                    /\ lastCall.result \subseteq (P1 \cup P2)

\* a read between the two writes of a call that keeps one key, deletes one
\* and puts one
C12_Witness ==
    /\ lastCall.op = "read"
    /\ lastCall.during[1].phase = "writing"
    /\ Len(lastCall.during[1].reqs) = 2
    /\ Cardinality(lastCall.during[1].pending) = 1
    /\ \E i, j \in 1..2 : /\ lastCall.during[1].reqs[i].op = "put"
                          /\ lastCall.during[1].reqs[j].op = "delete"
    /\ StoredSKs(lastCall.during[1].pre, lastCall.user)
            \cap DesiredSKs(lastCall.during[1].body) # {}
    /\ lastCall.result # StoredSKs(lastCall.during[1].pre, lastCall.user)
    /\ lastCall.result # DesiredSKs(lastCall.during[1].body)

RECURSIVE AfterEvent(_, _)
\* the table after the payloads of an event have been ingested one by one
AfterEvent(tbl, event) ==
    IF event = <<>> THEN tbl
    ELSE AfterEvent(IF "payload" \in DOMAIN Head(event) /\ "id" \in DOMAIN Head(event).payload
                    THEN OnceAfter(tbl, Head(event).payload)
                    ELSE tbl,
                    Tail(event))

\* the rows an event asks for
RowsOfEvent(event) ==
    UNION {{CanonicalRow(payload)} \cup IndexRowsOf(payload) : payload \in ValidPayloads(event)}

\* C13: while two consumer invocations with identical payloads for the titles
\* they share interleave their puts, no row an invocation has written is
\* removed or changed by a put of the other, there is one row per key, and
\* once both have returned the table is the one that running them one after
\* the other leaves.
C13_InterleavedIsSequential ==
    /\ \A i, j \in store : KeyOf(i) = KeyOf(j) => i = j
    /\ \A p \in Procs :
            (inFlight[p].phase # "idle" /\ inFlight[p].op = "ingest") =>
                \A req \in Range(inFlight[p].reqs) \ inFlight[p].pending : req.item \in store
    /\ BothDone("ingest") =>
            \E p, q \in Procs :
                /\ p # q
                /\ store = AfterEvent(AfterEvent(inFlight[p].pre, inFlight[p].event),
                                      inFlight[q].event)

\* two finished invocations that share title T1: the second started after
\* the first had written a row and before it had written its last one
C13_Witness ==
    /\ BothDone("ingest")
    /\ ValidPayloads(inFlight[1].event) \cap ValidPayloads(inFlight[2].event) # {}
    /\ inFlight[1].event # inFlight[2].event
    /\ \E p, q \in Procs :
            /\ RowsOfEvent(inFlight[p].event) \cap (inFlight[q].pre \ inFlight[p].pre) # {}
            /\ RowsOfEvent(inFlight[p].event) \ inFlight[q].pre # {}

---------------------------------------------------------------------------
(* Claims about a table that fails, checked under SpecPrefsFailing,         *)
(* SpecIngestFailing and SpecReadsFailing                                   *)

RECURSIVE Flat(_)
\* the items of a sequence of batch requests, in order
Flat(batches) == IF batches = <<>> THEN <<>> ELSE Head(batches) \o Flat(Tail(batches))

\* the table after the requests of the first n batches have been applied
AfterBatches(tbl, batches, n) ==
    LET done == Range(Flat(SubSeq(batches, 1, n)))
    IN  {i \in tbl : \A r \in done : <<r.item.PK, r.item.SK>> # <<i.PK, i.SK>>}
            \cup {r.item : r \in {d \in done : d.op = "put"}}

\* C14: a reconcile call during which the table fails a request answers with
\* an error (500) and sends no request after the failed one: the writes it
\* sent end with the failed flush, the table holds what the flushes before it
\* wrote, and a failed query leaves the table as it was, with no write sent;
\* a call answered with success met no failure.
C14_FailureIsReportedAndStops ==
    Reconciled =>
        /\ lastCall.fail = 0 => lastCall.reply.statusCode \in {200, 204}
        /\ lastCall.fail > 0 =>
            /\ lastCall.reply.statusCode = 500
            /\ Len(lastCall.writes) = lastCall.fail - 1
            /\ store = AfterBatches(lastCall.pre, lastCall.writes, lastCall.fail - 2)
        /\ lastCall.fail = 1 => (lastCall.writes = <<>> /\ store = lastCall.pre)

\* a reconcile call whose second flush fails after its first has changed the
\* table
C14_Witness ==
    /\ Reconciled
    /\ lastCall.fail = 3
    /\ Len(lastCall.writes) = 2
    /\ store # lastCall.pre
    /\ lastCall.reply.statusCode = 500

\* C15: an ingest call during which the table fails a flush raises and never
\* returns the success message; the rows of the flushes before the failed
\* one stay in the table, and no flush follows the failed one.
C15_FailedFlushRaises ==
    Ingested =>
        /\ lastCall.result = "processed" => lastCall.fail = 0
        /\ lastCall.fail > 0 =>
            /\ lastCall.result = "raised"
            /\ Len(lastCall.writes) = lastCall.fail
            /\ store = AfterBatches(lastCall.pre, lastCall.writes, lastCall.fail - 1)

\* an ingest call whose second flush fails: the rows of the first stay
C15_Witness ==
    /\ Ingested
    /\ lastCall.fail = 2
    /\ lastCall.result = "raised"
    /\ lastCall.pre = {}
    /\ Cardinality(store) = FlushAmount

\* C16: a read entry point (GET /titles, /recommendations, /preferences)
\* during which the table fails a read answers with an error, never with
\* the 200 of a successful result.
C16_FailedReadIsAnError ==
    (lastCall.op \in {"resolve", "preferences"} /\ lastCall.fail > 0) =>
        lastCall.reply.statusCode >= 400

\* C17: the answer of a successful reconcile call that found both delta
\* sets empty and wrote nothing differs from the answer of a successful call
\* of the same entry point that applied a non-empty delta (here: the call
\* right before it).
C17_NoOpIsDistinguishable ==
    [][(/\ lastCall.op = "reconcile" /\ lastCall'.op = "reconcile"
        /\ lastCall.impl = lastCall'.impl
        /\ lastCall.result # 500 /\ lastCall'.result # 500
        /\ lastCall.writes # <<>> /\ lastCall'.writes = <<>>)
            => lastCall'.reply # lastCall.reply]_vars

---------------------------------------------------------------------------
(* Claims about pages, the catalog and the keys *)

\* C18: every query of a partition that a reconcile call or the resolver
\* sends gives the call all rows of the partition, also when the table
\* delivers the partition in several pages.
C18_QueryReturnsWholePartition ==
    (lastCall.op \in {"reconcile", "resolve"} /\ "seen" \in DOMAIN lastCall) =>
        \A i \in 1..Len(lastCall.reads) :
            lastCall.reads[i].kind = "query" =>
                {r \in lastCall.seen : r.PK = lastCall.reads[i].pk}
                    = {r \in lastCall.pre : r.PK = lastCall.reads[i].pk}

\* C19: GET /sources lists exactly one entry per stored Source row (a row
\* source:<id> / <name> written by the reference upsert) and no entry made
\* from a row of another kind, such as an index row source:<s>:genre:<g>.
C19_SourcesListsSourceRowsOnly ==
    (lastCall.op = "list" /\ lastCall.prefix = SOURCE_PREFIX) =>
        LET sourceRows == {i \in store : /\ "data" \in DOMAIN i
                                         /\ {"id", "name"} \subseteq DOMAIN i.data
                                         /\ i.PK = SOURCE_PREFIX \o Fmt(i.data.id)
                                         /\ i.SK = i.data.name}
        IN  /\ {e.row : e \in lastCall.result} = {KeyOf(i) : i \in sourceRows}
            /\ Cardinality(lastCall.result) = Cardinality(sourceRows)

\* C20: the keys that the code builds for two distinct entities of one kind
\* (two index triples, two preferences, two titles) are different, whatever
\* strings the ids are, ':' and ':genre:' included.
C20_KeysAreInjective ==
    (lastCall.op = "keys" /\ lastCall.entities[1] # lastCall.entities[2]) =>
        lastCall.result[1] # lastCall.result[2]

---------------------------------------------------------------------------
(* Claims about reading back what was written, checked under SpecCodec *)

\* a call that wrote what it was asked to write is followed at once by the
\* read of the same kind: the preferences of the user read back are the ids
\* of the body, each under its kind
PreferencesReadBack ==
    (/\ lastCall.op = "reconcile" /\ lastCall.result \in {200, 204}
     /\ lastCall'.op = "preferences" /\ lastCall'.user = lastCall.user) =>
        lastCall'.result =
            [sources |-> {id.v : id \in Range(Get(lastCall.body, "sources", <<>>))},
             genres |-> {id.v : id \in Range(Get(lastCall.body, "genres", <<>>))}]

\* the listing of web_api has the id and the name of every item upserted
ReferenceReadBack ==
    (/\ lastCall.op = "refresh" /\ lastCall.result
     /\ lastCall'.op = "list" /\ lastCall'.impl = "web_api"
     /\ lastCall'.prefix = lastCall.prefix) =>
        \A i \in 1..Len(lastCall.items) :
            [id |-> lastCall.items[i].id.v, name |-> lastCall.items[i].name]
                \in {e.entry : e \in lastCall'.result}

\* the resolver that queries an index partition of a title just ingested
\* asks for the canonical row of that title
TitleIdReadBack ==
    (/\ lastCall.op = "ingest" /\ lastCall.result = "processed"
     /\ lastCall'.op = "resolve") =>
        \A i \in 1..Len(lastCall.event) :
            LET title == lastCall.event[i].payload
            IN  \A s \in Range(title.source_ids), g \in Range(title.genre_ids) :
                    (\E r \in Range(lastCall'.reads) :
                        /\ r.kind = "query"
                        /\ r.pk = <<"source", ":">> \o s.v \o <<":", "genre", ":">> \o g.v)
                    => \E r \in Range(lastCall'.reads) :
                        /\ r.kind = "batch_get"
                        /\ [PK |-> <<"title", ":">> \o title.id.v, SK |-> <<"record">>]
                              \in Range(r.keys)

\* C21: what a writer encoded into a key is decoded unchanged by the reader
\* of its kind: a preference by GET /preferences, a source or genre by the
\* listing of web_api, a title id by the resolver; for ids that hold ':' too.
C21_DecodeOfEncode ==
    [][PreferencesReadBack /\ ReferenceReadBack /\ TitleIdReadBack]_vars

---------------------------------------------------------------------------
(* Claims about the reference writer, checked under SpecReference *)

\* the items of the last refresh call that are records with an id and a name
ValidItems ==
    SelectSeq(lastCall.items, LAMBDA item : "id" \in DOMAIN item /\ "name" \in DOMAIN item)

\* C22: after a successful upsert the table holds, for every id upserted,
\* exactly one row, the one of the last item of that id: its name and its
\* attributes, also when the name differs from the name stored before.
C22_LastWriteWins ==
    (lastCall.op = "refresh" /\ lastCall.result) =>
        \A i \in 1..Len(ValidItems) :
            (\A j \in (i + 1)..Len(ValidItems) : ValidItems[j].id # ValidItems[i].id) =>
                {r \in store : r.PK = lastCall.prefix \o ValidItems[i].id.v}
                    = {[PK |-> lastCall.prefix \o ValidItems[i].id.v,
                        SK |-> ValidItems[i].name, data |-> ValidItems[i]]}

\* the rows of the valid items of the last refresh call, written out from
\* the key scheme <prefix><id> / <name>
ValidRows ==
    {[PK |-> lastCall.prefix \o ValidItems[i].id.v, SK |-> ValidItems[i].name,
      data |-> ValidItems[i]] : i \in 1..Len(ValidItems)}

\* no two valid items of the last refresh call have the same id and name (a
\* batch that names a key twice is rejected by the table)
NoItemTwice == Cardinality({KeyOf(r) : r \in ValidRows}) = Len(ValidItems)

\* C23: an upsert whose input holds an item that is no record or lacks 'id'
\* or 'name' writes nothing for that item, writes every valid item before and
\* after it, and does not fail because of it.
C23_BadItemIsSkipped ==
    (lastCall.op = "refresh" /\ lastCall.fail = 0 /\ NoItemTwice) =>
        /\ lastCall.result
        /\ store = {r \in lastCall.pre : KeyOf(r) \notin {KeyOf(v) : v \in ValidRows}}
                        \cup ValidRows

C23_Witness ==
    /\ lastCall.op = "refresh" /\ lastCall.fail = 0 /\ lastCall.result
    /\ Len(lastCall.items) = 3 /\ Len(ValidItems) = 2
    /\ lastCall.items[2] \in {None, [id |-> B]}
    /\ Cardinality(store) = Cardinality(lastCall.pre) + 2

\* C24: the upsert returns true exactly when the table accepted the batch of
\* the valid items, false when the write failed; on an empty input it
\* returns true and sends nothing.
C24_TrueIffWritten ==
    lastCall.op = "refresh" =>
        /\ lastCall.result = (lastCall.fail = 0 /\ NoItemTwice)
        /\ lastCall.result => ValidRows \subseteq store
        /\ lastCall.items = <<>> => (lastCall.result /\ lastCall.writes = <<>> /\ store = lastCall.pre)

C24_Witness ==
    /\ lastCall.op = "refresh" /\ lastCall.fail = 1 /\ ~lastCall.result
    /\ Len(ValidItems) = 2 /\ store = {}

---------------------------------------------------------------------------
(* Claims about records without a title, checked under SpecIngestRaw *)

\* C25: a consumer call whose event holds records without payload, without
\* id or with data that cannot be decoded does not fail, writes nothing for
\* these records, and leaves the table that the other records of the event
\* alone would leave.
C25_BadRecordIsDiscarded ==
    (lastCall.op = "ingest" /\ lastCall.fail = 0) =>
        /\ lastCall.result = "processed"
        /\ store = AfterEvent(lastCall.pre, lastCall.event)

---------------------------------------------------------------------------
(* Claims about recommendations, checked under SpecRated *)

\* C26: GET /recommendations answers with exactly those titles of the answer
\* of GET /titles, asked for the same user on the same table, whose
\* user_rating is above 7; a title rated 7 or less, 0 or not at all is never
\* recommended.
C26_RecommendationsAreTheRatedTitles ==
    [][(/\ lastCall.op = "resolve" /\ lastCall.filter = NoFilter
        /\ lastCall'.op = "resolve" /\ lastCall'.filter = RatingAbove(7)
        /\ lastCall'.user = lastCall.user) =>
            /\ Range(lastCall'.result) = {t \in Range(lastCall.result) : t.user_rating > 7}
            /\ Len(lastCall'.result) = Cardinality(Range(lastCall'.result))]_vars

C26_Witness ==
    /\ lastCall.op = "resolve" /\ lastCall.filter = RatingAbove(7)
    /\ Len(lastCall.result) = 1 /\ lastCall.result[1].user_rating = 8
    /\ \E row \in store : /\ row.PK = <<"title", ":", "2">> /\ row.SK = <<"record">>
                           /\ Get(row.data, "user_rating", 0) = 7
    /\ [PK |-> <<"source", ":", "A", ":", "genre", ":", "X">>, SK |-> <<"title", ":", "2">>] \in store

---------------------------------------------------------------------------
(* Claims about the enrichment, checked under SpecEnrich *)

\* the keys that the INSERT records of the last enrichment call name
InsertedKeys ==
    {<<lastCall.event[i].PK, lastCall.event[i].SK>> :
        i \in {j \in 1..Len(lastCall.event) : lastCall.event[j].eventName = "INSERT"}}

\* C27: an enrichment call leaves the keys of the table as they were and
\* changes no row but the canonical rows (title:<id>, record) that an INSERT
\* record of its event names; of such a row it changes nothing but the
\* attributes plot_overview, poster and user_rating of data.
C27_EnrichmentMergesThreeAttributes ==
    lastCall.op = "enrich" =>
        /\ {KeyOf(r) : r \in store} = {KeyOf(r) : r \in lastCall.pre}
        /\ \A new \in store \ lastCall.pre :
                /\ KeyOf(new) \in InsertedKeys
                /\ new.PK[1] = "title" /\ new.SK = <<"record">>
                /\ \E old \in lastCall.pre :
                        /\ KeyOf(old) = KeyOf(new)
                        /\ DOMAIN new = DOMAIN old
                        /\ DOMAIN old.data \subseteq DOMAIN new.data
                        /\ \A k \in DOMAIN old.data \ {"plot_overview", "poster", "user_rating"} :
                                new.data[k] = old.data[k]

C27_Witness ==
    /\ lastCall.op = "enrich" /\ Len(lastCall.event) = 2
    /\ lastCall.event[1].eventName = "INSERT" /\ lastCall.event[1].SK = <<"title", ":", "T1">>
    /\ lastCall.event[2].eventName = "INSERT" /\ lastCall.event[2].SK = <<"record">>
    /\ Cardinality(store \ lastCall.pre) = 1
    /\ \E row \in store \ lastCall.pre : row.data.poster = "p.jpg" /\ row.data.source_ids = <<A>>

---------------------------------------------------------------------------
(* Claims about what a call leaves alone, checked under SpecFrame *)

\* C28: GET /titles, GET /recommendations, GET /preferences and the catalog
\* listings leave every row of the table as it is; the consumer and the
\* enrichment delete no row.
C28_ReadsWriteNothing ==
    [][/\ lastCall'.op \in {"resolve", "preferences", "list"} => store' = store
       /\ lastCall'.op \in {"ingest", "enrich"} =>
            {KeyOf(r) : r \in store} \subseteq {KeyOf(r) : r \in store'}]_vars

C28_Witness ==
    /\ lastCall.op = "resolve" /\ lastCall.result = <<>>
    /\ \E r \in Range(lastCall.reads) : r.kind = "batch_get"
    /\ [PK |-> <<"source", ":", "A", ":", "genre", ":", "X">>, SK |-> <<"title", ":", "T1">>] \in store

---------------------------------------------------------------------------
(* Claims about scans, checked under SpecScans *)

\* C29: a scan of the table by prefix is only ever sent with the prefix
\* 'source:' or 'genre:', never with a prefix that has one partition per
\* user ('userpref:') or per title ('title:').
C29_ScansOnlyTheCatalogs ==
    "reads" \in DOMAIN lastCall =>
        \A i \in 1..Len(lastCall.reads) :
            lastCall.reads[i].kind = "scan" =>
                lastCall.reads[i].prefix \in {<<"source", ":">>, <<"genre", ":">>}

---------------------------------------------------------------------------
(* Claims about the batch-get, checked under SpecUnprocessed *)

\* C30: the batch-get requests of a resolver call hold at most 100 keys
\* each and every collected title key in exactly one of them, and the rows
\* the call gets are the canonical rows, as far as they exist, of all keys
\* requested, also when the table left keys of a request unprocessed.
C30_BatchGetReturnsEveryRow ==
    (lastCall.op = "resolve" /\ "got" \in DOMAIN lastCall) =>
        LET gets == SelectSeq(lastCall.reads, LAMBDA r : r.kind = "batch_get")
            requested == UNION {Range(gets[i].keys) : i \in 1..Len(gets)}
        IN  /\ \A i \in 1..Len(gets) :
                    /\ Len(gets[i].keys) <= 100
                    /\ Cardinality(Range(gets[i].keys)) = Len(gets[i].keys)
                    /\ \A j \in 1..Len(gets) : i # j => Range(gets[i].keys) \cap Range(gets[j].keys) = {}
            /\ lastCall.got = {row \in store : [PK |-> row.PK, SK |-> row.SK] \in requested}

---------------------------------------------------------------------------
(* Claims about enriched titles, checked under SpecShown *)

\* C31: a resolver call that follows an enrichment call whose details hold
\* no poster or no plot text returns none of the titles that the enrichment
\* call was about.
C31_PartlyEnrichedStaysHidden ==
    [][(/\ lastCall.op = "enrich" /\ lastCall'.op = "resolve"
        /\ lastCall.details # None
        /\ \/ Get(lastCall.details, "poster", "") = ""
           \/ Get(lastCall.details, "plot_overview", "") = "")
       => \A i \in 1..Len(lastCall'.result), j \in 1..Len(lastCall.event) :
                (lastCall.event[j].SK = <<"record">> /\ StartsWith(lastCall.event[j].PK, TITLE_PREFIX))
                    => lastCall'.result[i].id # Split1(lastCall.event[j].PK)[2]]_vars

---------------------------------------------------------------------------
(* Claims about ingesting again, checked under SpecRerun *)

\* the titles a consumer invocation ingests with the source and genre lists
\* that their canonical row of tbl holds
IngestedAgain(tbl, event) ==
    {t \in TitleTexts(tbl) :
        \E p \in ValidPayloads(event), c \in CanonicalRowsOf(tbl, t) :
            /\ Text(p.id) = t
            /\ Get(p, "source_ids", <<>>) = Get(c.data, "source_ids", <<>>)
            /\ Get(p, "genre_ids", <<>>) = Get(c.data, "genre_ids", <<>>)}

\* C32: a title that resolve returns for a user is still returned, with the
\* poster, plot and rating it had, after a consumer invocation that ingests
\* the title again with the same source and genre lists and the enrichment
\* of the stream records of that invocation.
C32_IngestingAgainKeepsTheTitle ==
    (lastCall.op = "enrich" /\ "before" \in DOMAIN lastCall) =>
        \A u \in Users :
            \A t \in Matching(lastCall.before, u, NoFilter) \cap IngestedAgain(lastCall.before, lastCall.ingested) :
                /\ t \in Matching(store, u, NoFilter)
                /\ \A c \in CanonicalRowsOf(lastCall.before, t) :
                        \E d \in CanonicalRowsOf(store, t) :
                            \A k \in {"poster", "plot_overview", "user_rating"} :
                                k \in DOMAIN c.data => (k \in DOMAIN d.data /\ d.data[k] = c.data[k])

---------------------------------------------------------------------------
(* Claims about the rows of one consumer invocation, checked under SpecIngest *)

\* the items that the last call has put
Written == {w.item : w \in {r \in Range(Flat(lastCall.writes)) : r.op = "put"}}

\* C33: of the rows one consumer invocation writes, every index row
\* (source:<s>:genre:<g>, title:<t>) goes with a canonical row
\* (title:<t>, record) whose source_ids hold s and whose genre_ids hold g,
\* also when two payloads of the batch have the same id and different lists.
C33_IndexRowsFollowTheCanonicalRow ==
    (Ingested /\ lastCall.result = "processed") =>
        \A s \in AllSources, g \in AllGenres, t \in AllTitles :
            (\E i \in Written : KeyOf(i) = KeyOf(IndexRow(s, g, t))) => Lists(Written, s, g, t)

---------------------------------------------------------------------------
(* Claims about the scheduled ingestion, checked under SpecPipeline *)

\* C34: an index row (source:<s>:genre:<g>, title:<t>) that the scheduled
\* ingestion and the consumer after it have written names a source and a
\* genre that the title service lists title t for.
C34_IndexedWhereTheTitleIs ==
    \A s \in AllSources, g \in AllGenres, t \in AllTitles :
        (\E i \in store : KeyOf(i) = KeyOf(IndexRow(s, g, t))) =>
            \E c \in Upstream : c.title.id = t /\ s \in c.sources /\ g \in c.genres

---------------------------------------------------------------------------
(* Claims about the two reconcilers, checked under SpecEquiv *)

\* C35: for the same table, user and body, set_user_preferences and
\* update_user_preferences send the same set of puts and deletes and leave
\* the same table, also when the user's partition holds a row whose sort
\* key starts with neither 'source:' nor 'genre:'.
C35_ReconcilersAgree ==
    lastCall.op = "compare" =>
        /\ Range(Flat(lastCall.ran["preferences"].writes)) = Range(Flat(lastCall.ran["web_api"].writes))
        /\ lastCall.ran["preferences"].table = lastCall.ran["web_api"].table

---------------------------------------------------------------------------
(* Claims about the rows a reconcile call touches, checked under SpecOwn *)

\* C36: a reconcile call for a user queries the partition userpref:<user>
\* and no other, puts and deletes rows of that partition only, and leaves
\* every row of every other partition as it was, whether the call succeeds
\* or a request of it fails.
C36_ReconcileKeepsToItsPartition ==
    Reconciled =>
        LET pk == <<"userpref", ":">> \o lastCall.user
        IN  /\ \A i \in 1..Len(lastCall.reads) : lastCall.reads[i].pk = pk
            /\ \A w \in Range(Flat(lastCall.writes)) : w.item.PK = pk
            /\ {r \in store : r.PK # pk} = {r \in lastCall.pre : r.PK # pk}

\* a call for U that writes and a call for U whose flush fails, on a table
\* with preference rows of V, a canonical row and an index row
C36_Witness ==
    /\ Reconciled /\ lastCall.user = <<"U">>
    /\ lastCall.impl = "web_api" /\ lastCall.fail = 0 /\ lastCall.writes # <<>>
    /\ store # lastCall.pre
    /\ [PK |-> <<"userpref", ":", "V">>, SK |-> <<"source", ":", "A">>] \in store
    /\ [PK |-> <<"source", ":", "A", ":", "genre", ":", "X">>, SK |-> <<"title", ":", "T1">>] \in store
    /\ \E r \in store : r.PK = <<"title", ":", "T1">>

C36_WitnessFailed ==
    /\ Reconciled /\ lastCall.user = <<"U">>
    /\ lastCall.fail = 2 /\ lastCall.result = 500
    /\ [PK |-> <<"userpref", ":", "V">>, SK |-> <<"source", ":", "A">>] \in store
    /\ \E r \in store : r.PK = <<"title", ":", "T1">>

---------------------------------------------------------------------------
(* Claims about the custom resource, checked under SpecCognito *)

\* the last call handled a CloudFormation custom-resource event
Provisioned == lastCall.op = "add_cognito_user" /\ IsCloudformationEvent(lastCall.event)

\* C37: an invocation of add_cognito_user for a CloudFormation
\* custom-resource event has sent at least one response when it returns,
\* whatever branch it took, and every response it has sent has the Status
\* SUCCESS.
C37_AlwaysAnswersSuccess ==
    Provisioned =>
        /\ Len(lastCall.sent) >= 1
        /\ \A i \in 1..Len(lastCall.sent) : lastCall.sent[i].Status = "SUCCESS"

\* an invocation whose boto3.client raised
C37_Witness ==
    /\ Provisioned
    /\ lastCall.env.crash
    /\ Len(lastCall.sent) = 1
    /\ "CriticalError" \in DOMAIN lastCall.sent[1].Data

\* C38: an invocation of add_cognito_user for a CloudFormation
\* custom-resource event sends at most one response, whatever branch it
\* took.
C38_AnswersOnce ==
    Provisioned => Len(lastCall.sent) <= 1

=============================================================================
